---- MODULE Spec2Model ----
(***************************************************************************)
(* Model of the orchestration core of voyage-geo-agent:                    *)
(*   - ExecutionStage.execute   (stages/execution/stage.py)                *)
(*   - LeaderboardEngine        (core/leaderboard_engine.py)               *)
(*   - Pipeline.run             (core/pipeline.py)                         *)
(* Three specifications share the variables: ExecSpec runs one call of     *)
(* ExecutionStage.execute, LbSpec runs leaderboard invocations of one run  *)
(* directory (with process crashes and resumes), PipeSpec runs one call of *)
(* Pipeline.run.                                                           *)
(***************************************************************************)
EXTENDS Integers, Sequences, FiniteSets, TLC

(***************************************************************************)
(* Bounds of the model.                                                    *)
(***************************************************************************)
MaxQueries == 2
MaxProviders == 2
MaxIterations == 2
MaxConcurrency == 2
MaxTasks == 4
MaxLbTasks == 1
MaxBrands == 2

VARIABLES
    \* ---- ExecutionStage.execute ----
    execPc,        \* "idle" | "ready" | "gather" | "returned" | "raised"
    querySet,      \* ctx.query_set: None or Some(the sequence of query ids)
    providers,     \* provider_registry.get_enabled(): sequence of provider names
    provMode,      \* how each provider behaves: "ok" | "blank" | "down" | "hung" | "flaky"
    iterations,    \* config.execution.iterations
    concurrency,   \* config.execution.concurrency
    tasks,         \* the coroutines handed to asyncio.gather, in creation order
    taskPc,        \* per task: "waiting" | "inflight" | "done"
    semValue,      \* asyncio.Semaphore value
    results,       \* execution_run.results
    completed,     \* nonlocal completed
    failed,        \* nonlocal failed
    execStatus,    \* execution_run.status
    calls,         \* per task: number of provider.query calls made for it
    outcome,       \* per task: what its provider call did ("none" until it ends)
    fResults,      \* results/results.json
    fByProvider,   \* results/by-provider/{provider}.json
    \* ---- LeaderboardEngine: the process running run() ----
    lbPc,          \* where run()/_execute() stands; "off" outside LbSpec, "dead" = no process
    resume,        \* self.resume_run_id is set
    stopAfter,     \* self.stop_after ("none" for None)
    categoryProfile, \* category_profile: None or Some(BrandProfile)
    executionRun,  \* execution_run: None or Some(ExecutionRun)
    brands,        \* brands: None or Some(canonical brand list)
    extracted,     \* None or Some([claims, ranked]): extracted_claims, ranked_lists_by_response
    entries,       \* entries
    toAnalyze,     \* to_analyze
    brandPc,       \* per task of to_analyze: "waiting" | "inflight" | "done"
    brandSem,      \* the phase-5 asyncio.Semaphore value
    lbResult,      \* the LeaderboardResult returned by _execute: None or Some
    \* ---- the run directory ----
    fMeta,         \* metadata.json
    fCategory,     \* category-profile.json
    fQueries,      \* queries.json
    fExtraction,   \* analysis/extraction-checkpoint.json
    fAnalysis,     \* analysis/{slug}.json, by slug
    fLeaderboard,  \* analysis/leaderboard.json
    fReports,      \* reports/*
    \* ---- what the processing provider answers (the same answer every time) ----
    worldCount,    \* how many queries query generation yields
    worldBrands,   \* the canonical brand list extraction and dedup yield
    \* ---- history of the current invocation ----
    cachedAtScan,  \* the slugs whose analysis file existed when phase 5 scanned them
    analysed,      \* the brands analysed by this invocation, in completion order
    procCalls,     \* the phases that called the processing provider, in order
    flaky,         \* a processing-provider call failed at some point of the run
    resultsAtStart, \* results/results.json as the current invocation found it
    \* ---- Pipeline.run ----
    pipePc,        \* "off" | "start" | "stage" | "hook" | "finish" | "returned" | "raised"
    stages,        \* self._stages: the stage names, in order
    hooks,         \* the keys of self._hooks
    stageIdx,      \* the position of the for loop in self._stages
    ctxStatus,     \* ctx.status
    ctxErrors,     \* ctx.errors
    executed,      \* the stages whose execute was called, in order
    raised,        \* the exception that left run: None or Some([by, stage, message])
    errorsAtStart, \* ctx.errors when run was called
    stopArg,       \* the stop_after keyword of the call: None = not passed, Some(value)
    \* ---- VoyageGeoEngine.run and the command line ----
    engPc,         \* where the `run` command or VoyageGeoEngine.run stands; "off" elsewhere
    ctxProfile,    \* ctx.brand_profile: None or Some
    fProfile,      \* brand-profile.json
    stageFails,    \* the stages whose execute raises when it is called
    runDir,        \* the run directory exists
    \* ---- deduplicate_brands ----
    dedupPc,       \* "off" | "called" | "layer2" | "pairs" | "returned"
    dedupInput,    \* the brands argument
    canonical_set, \* the canonical names, in order
    alias_map,     \* name -> canonical name
    canonical_lower_map, \* lowercased name -> name, as built before the pairs are applied
    llm_aliases,   \* the (alias, canonical) pairs of the reply applied so far, in order
    layer1,        \* what layer 1 left: [canonical_set, alias_map]
    \* ---- RankPositionAnalyzer.analyze ----
    rankPc,        \* "off" | "called" | "loop" | "returned"
    rankResults,   \* the results argument, each with the ranked list found for it
    rankTarget,    \* profile.name
    rankIdx,       \* the index of the result the loop is at
    weighted_sum,  \* the sum of the contributions, as a numerator over PositionDen
    total_ranked_responses,
    weighted_visibility, \* the returned score in units of 1/10000; None before
    \* ---- JobStore (app/jobs.py) ----
    jobs,          \* _jobs: the JobRecords, job j at index j
    procs,         \* the keys of _procs: the jobs whose Popen is registered
    child,         \* per job, the subprocess: its state, exit code, signal, stdout pipe
    jobPc,         \* per job, where _start and the streaming thread of the job are
    clock,         \* the number of now_iso() calls made so far
    cancelReturn   \* the last cancel_job call: <<job_id, returned value>>; None before

execVars == <<execPc, querySet, providers, provMode, iterations, concurrency, tasks,
              taskPc, semValue, results, completed, failed, execStatus, calls,
              outcome, fResults, fByProvider>>

lbMem == <<lbPc, resume, stopAfter, categoryProfile, executionRun, brands, extracted,
           entries, toAnalyze, brandPc, brandSem, lbResult>>

lbDisk == <<fMeta, fCategory, fQueries, fExtraction, fAnalysis, fLeaderboard, fReports>>

lbWorld == <<worldCount, worldBrands>>

lbHist == <<cachedAtScan, analysed, procCalls, flaky, resultsAtStart>>

lbVars == <<lbMem, lbDisk, lbWorld, lbHist>>

pipeVars == <<pipePc, stages, hooks, stageIdx, ctxStatus, ctxErrors, executed, raised,
              errorsAtStart, stopArg>>

engVars == <<engPc, ctxProfile, fProfile, stageFails>>

dedupVars == <<dedupPc, dedupInput, canonical_set, alias_map, canonical_lower_map,
               llm_aliases, layer1>>

rankVars == <<rankPc, rankResults, rankTarget, rankIdx, weighted_sum,
              total_ranked_responses, weighted_visibility>>

jobVars == <<jobs, procs, child, jobPc, clock, cancelReturn>>

utilVars == <<dedupVars, rankVars, jobVars>>

vars == <<execVars, lbVars, pipeVars, engVars, utilVars, runDir>>

(***************************************************************************)
(* Values.                                                                 *)
(***************************************************************************)
\* An optional value (None or a value) and a file (absent or its content) are a
\* sequence of length 0 or 1.
None == <<>>
Some(x) == <<x>>
NoFile == <<>>
File(x) == <<x>>
Content(f) == f[1]
NoQuerySet == None
\* QueryResult.error is None on success
NoError == "None"
\* str(TimeoutError()) raised by asyncio.wait_for: the empty string
TimeoutMessage == ""
ProviderMessage == "provider error"
ResponseText == "response text"

ProviderNames == <<"openai", "anthropic", "google", "perplexity">>

\* GeneratedQuery.id, f"{prefix}-{token}"
QueryId(i) == <<"q", i>>

QueryIds(n) == [i \in 1..n |-> QueryId(i)]

Range(s) == {s[i] : i \in DOMAIN s}

(***************************************************************************)
(* ExecutionStage.execute                                                  *)
(***************************************************************************)

\* total_tasks = len(queries) * len(providers) * iterations
TotalTasks(qs, ps, k) == Len(qs) * Len(ps) * k

\* A mutant of the task loops: the provider loop reuses the first provider.
BuildTasksOneProvider(qs, ps, k) ==
    [i \in 1..TotalTasks(qs, ps, k) |->
        [iteration |-> ((i - 1) \div (Len(qs) * Len(ps))) + 1,
         query |-> qs[(((i - 1) \div Len(ps)) % Len(qs)) + 1],
         provider |-> ps[1]]]

\* for iteration in range(1, iterations + 1): for query in queries:
\*     for provider in providers: tasks.append(run_task(query, provider, iteration))
BuildTasks(qs, ps, k) ==
    [i \in 1..TotalTasks(qs, ps, k) |->
        [iteration |-> ((i - 1) \div (Len(qs) * Len(ps))) + 1,
         query |-> qs[(((i - 1) \div Len(ps)) % Len(qs)) + 1],
         provider |-> ps[((i - 1) % Len(ps)) + 1]]]

\* QueryResult(...) of the try branch
SuccessResult(t, text) ==
    [query_id |-> t.query, provider |-> t.provider, iteration |-> t.iteration,
     response |-> text, error |-> NoError]

\* A mutant of the except branch: the error is not recorded.
FailureResultNoError(t, msg) ==
    [query_id |-> t.query, provider |-> t.provider, iteration |-> t.iteration,
     response |-> "", error |-> NoError]

\* QueryResult(..., response="", error=str(e)) of the except branch
FailureResult(t, msg) ==
    [query_id |-> t.query, provider |-> t.provider, iteration |-> t.iteration,
     response |-> "", error |-> msg]

\* A mutant of the timeout: a call that never answers is never abandoned.
OutcomesNoTimeout(p) ==
    CASE provMode[p] = "ok" -> {"ok"}
      [] provMode[p] = "blank" -> {"empty"}
      [] provMode[p] = "down" -> {"raise"}
      [] provMode[p] = "hung" -> {}
      [] OTHER -> {"ok", "empty", "raise"}

\* What a call to a provider can do, by the provider's behaviour.
Outcomes(p) ==
    CASE provMode[p] = "ok" -> {"ok"}
      [] provMode[p] = "blank" -> {"empty"}
      [] provMode[p] = "down" -> {"raise"}
      [] provMode[p] = "hung" -> {"timeout"}
      [] OTHER -> {"ok", "empty", "raise", "timeout"}

InFlight == {i \in DOMAIN taskPc : taskPc[i] = "inflight"}
Waiting == {i \in DOMAIN taskPc : taskPc[i] = "waiting"}

\* A mutant of the semaphore: acquire never blocks.
CanAcquireUnbounded(i) ==
    /\ taskPc[i] = "waiting"
    /\ \A j \in Waiting : i <= j

\* asyncio.Semaphore.acquire: the value is positive and no earlier waiter is queued
\* (waiters are woken in FIFO order; every task queues when gather starts them)
CanAcquire(i) ==
    /\ taskPc[i] = "waiting"
    /\ semValue > 0
    /\ \A j \in Waiting : i <= j

\* A mutant of the release: a failed task leaves without releasing its slot.
ReleasedValueLeak(v, o) == IF o \in {"raise", "timeout"} THEN v ELSE v + 1

\* asyncio.Semaphore.release on leaving `async with semaphore`, on every path
ReleasedValue(v, o) == v + 1

\* execution_run.status = "completed" if failed == 0 else "partial" if completed > 0 else "failed"
DerivedStatus(c, f) == IF f = 0 THEN "completed" ELSE IF c > 0 THEN "partial" ELSE "failed"

\* by_provider.setdefault(r.provider, []).append(r.model_dump())
ByProvider(rs) ==
    [p \in {rs[i].provider : i \in DOMAIN rs} |->
        SelectSeq(rs, LAMBDA r : r.provider = p)]

\* save_json(f"results/by-provider/{provider_name}.json") per provider of the
\* results: the files of other providers stay as they were
SavedByProvider(old, new) ==
    [p \in (DOMAIN old) \cup (DOMAIN new) |-> IF p \in DOMAIN new THEN new[p] ELSE old[p]]

\* ExecutionRun.model_dump() as written to results/results.json
ExecutionRunDump(rs, total, c, f, st) ==
    [results |-> rs, total_queries |-> total, completed_queries |-> c,
     failed_queries |-> f, status |-> st]

\* execute up to asyncio.gather: the guard on ctx.query_set, the ExecutionRun, the
\* semaphore and the task list
ExecStart ==
    /\ execPc = "ready"
    /\ IF querySet = NoQuerySet
       THEN /\ execPc' = "raised"
            /\ UNCHANGED <<tasks, taskPc, semValue, calls, outcome>>
       ELSE /\ execPc' = "gather"
            /\ tasks' = BuildTasks(querySet[1], providers, iterations)
            /\ taskPc' = [i \in 1..TotalTasks(querySet[1], providers, iterations) |-> "waiting"]
            /\ calls' = [i \in 1..TotalTasks(querySet[1], providers, iterations) |-> 0]
            /\ outcome' = [i \in 1..TotalTasks(querySet[1], providers, iterations) |-> "none"]
            /\ semValue' = concurrency
    /\ results' = <<>>
    /\ completed' = 0
    /\ failed' = 0
    /\ execStatus' = "running"
    /\ UNCHANGED <<querySet, providers, provMode, iterations, concurrency, fResults,
                   fByProvider>>
    /\ UNCHANGED <<lbVars, pipeVars, engVars, utilVars, runDir>>

\* run_task: `async with semaphore`, then the provider.query call is started
TaskAcquire(i) ==
    /\ execPc = "gather"
    /\ i \in DOMAIN taskPc
    /\ CanAcquire(i)
    /\ semValue' = semValue - 1
    /\ taskPc' = [taskPc EXCEPT ![i] = "inflight"]
    /\ calls' = [calls EXCEPT ![i] = @ + 1]
    /\ UNCHANGED <<execPc, querySet, providers, provMode, iterations, concurrency, tasks,
                   results, completed, failed, execStatus, outcome, fResults,
                   fByProvider>>
    /\ UNCHANGED <<lbVars, pipeVars, engVars, utilVars, runDir>>

\* A mutant of run_task: a call that raised or timed out is made again.
AfterCallRetries(o) == IF o \in {"raise", "timeout"} THEN "waiting" ELSE "done"

\* where run_task stands after the call: the try and the except branch both fall
\* through to the append and the return, there is no loop around the call
AfterCall(o) == "done"

\* run_task from the end of the provider call to the end of `async with`: no await
\* in between, so it is one step of the event loop
TaskEnds(i, o, r) ==
    /\ execPc = "gather"
    /\ i \in DOMAIN taskPc
    /\ taskPc[i] = "inflight"
    /\ o \in Outcomes(tasks[i].provider)
    /\ results' = Append(results, r)
    /\ completed' = IF o \in {"ok", "empty"} THEN completed + 1 ELSE completed
    /\ failed' = IF o \in {"ok", "empty"} THEN failed ELSE failed + 1
    /\ taskPc' = [taskPc EXCEPT ![i] = AfterCall(o)]
    /\ outcome' = [outcome EXCEPT ![i] = o]
    /\ semValue' = ReleasedValue(semValue, o)
    /\ UNCHANGED <<execPc, querySet, providers, provMode, iterations, concurrency, tasks,
                   execStatus, calls, fResults, fByProvider>>
    /\ UNCHANGED <<lbVars, pipeVars, engVars, utilVars, runDir>>

\* provider.query returned a response with text
TaskSucceeds(i) == TaskEnds(i, "ok", SuccessResult(tasks[i], ResponseText))

\* provider.query returned a response whose text is empty
TaskSucceedsEmpty(i) == TaskEnds(i, "empty", SuccessResult(tasks[i], ""))

\* provider.query raised (GeoProviderError, GeoRateLimitError, ...)
TaskRaises(i) == TaskEnds(i, "raise", FailureResult(tasks[i], ProviderMessage))

\* asyncio.wait_for gave up after timeout_ms and raised TimeoutError
TaskTimesOut(i) == TaskEnds(i, "timeout", FailureResult(tasks[i], TimeoutMessage))

\* execute after asyncio.gather: the counts, the status and the saved files
ExecFinish ==
    /\ execPc = "gather"
    /\ \A i \in DOMAIN taskPc : taskPc[i] = "done"
    /\ execStatus' = DerivedStatus(completed, failed)
    /\ fResults' = File(ExecutionRunDump(results, Len(tasks), completed, failed,
                                         DerivedStatus(completed, failed)))
    /\ fByProvider' = SavedByProvider(fByProvider, ByProvider(results))
    /\ execPc' = "returned"
    /\ UNCHANGED <<querySet, providers, provMode, iterations, concurrency, tasks, taskPc,
                   semValue, results, completed, failed, calls, outcome>>
    /\ UNCHANGED <<lbVars, pipeVars, engVars, utilVars, runDir>>

\* "ok" answers with text, "blank" with an empty text, "down" raises, "hung" never
\* answers, "flaky" does any of these from one call to the next
ProviderModes == {"ok", "blank", "down", "hung", "flaky"}

\* The variables that only a leaderboard run uses, in a specification without one.
LbIdle ==
    /\ lbPc = "off"
    /\ categoryProfile = None
    /\ executionRun = None
    /\ brands = None
    /\ extracted = None
    /\ entries = <<>>
    /\ toAnalyze = <<>>
    /\ brandPc = <<>>
    /\ brandSem = 0
    /\ lbResult = None
    /\ fCategory = NoFile
    /\ fExtraction = NoFile
    /\ fAnalysis = <<>>
    /\ fLeaderboard = NoFile
    /\ fReports = NoFile
    /\ worldCount = 0
    /\ worldBrands = <<>>
    /\ cachedAtScan = {}
    /\ analysed = <<>>
    /\ procCalls = <<>>
    /\ flaky = FALSE
    /\ resultsAtStart = NoFile

\* The leaderboard variables of a specification that runs no leaderboard.
LbOff ==
    /\ LbIdle
    /\ resume = FALSE
    /\ stopAfter = "none"
    /\ fMeta = NoFile
    /\ fQueries = NoFile

\* The pipeline variables of a specification that runs no pipeline.
PipeOff ==
    /\ pipePc = "off"
    /\ stages = <<>>
    /\ hooks = {}
    /\ stageIdx = 0
    /\ ctxStatus = "pending"
    /\ ctxErrors = <<>>
    /\ executed = <<>>
    /\ raised = None
    /\ errorsAtStart = <<>>
    /\ stopArg = None

\* The variables of deduplicate_brands, in a specification that does not call it.
DedupOff ==
    /\ dedupPc = "off"
    /\ dedupInput = <<>>
    /\ canonical_set = <<>>
    /\ alias_map = <<>>
    /\ canonical_lower_map = <<>>
    /\ llm_aliases = <<>>
    /\ layer1 = <<>>

\* The variables of RankPositionAnalyzer.analyze, in a specification that does not call it.
RankOff ==
    /\ rankPc = "off"
    /\ rankResults = <<>>
    /\ rankTarget = <<>>
    /\ rankIdx = 1
    /\ weighted_sum = 0
    /\ total_ranked_responses = 0
    /\ weighted_visibility = <<>>

\* The variables of JobStore, in a specification that creates no store.
JobOff ==
    /\ jobs = <<>>
    /\ procs = {}
    /\ child = <<>>
    /\ jobPc = <<>>
    /\ clock = 0
    /\ cancelReturn = <<>>

UtilOff == DedupOff /\ RankOff /\ JobOff

\* The engine variables of a specification that runs no VoyageGeoEngine.
EngOff ==
    /\ engPc = "off"
    /\ ctxProfile = None
    /\ fProfile = NoFile
    /\ stageFails = {}

ExecInit ==
    /\ execPc = "ready"
    /\ \E n \in 0..MaxQueries, m \in 0..MaxProviders, k \in 1..MaxIterations :
          /\ n * m * k <= MaxTasks
          /\ querySet \in {NoQuerySet, Some(QueryIds(n))}
          /\ providers = SubSeq(ProviderNames, 1, m)
          /\ provMode \in [Range(SubSeq(ProviderNames, 1, m)) -> ProviderModes]
          /\ iterations = k
    /\ concurrency \in 1..MaxConcurrency
    /\ tasks = <<>>
    /\ taskPc = <<>>
    /\ calls = <<>>
    /\ outcome = <<>>
    /\ semValue = 0
    /\ results = <<>>
    /\ completed = 0
    /\ failed = 0
    /\ execStatus = "running"
    /\ fResults = NoFile
    /\ fByProvider = <<>>
    /\ LbOff
    /\ PipeOff
    /\ EngOff
    /\ UtilOff
    /\ runDir = FALSE

\* One step of ExecutionStage.execute.
ExecStep ==
    \/ ExecStart
    \/ \E i \in 1..(MaxTasks + 1) : TaskAcquire(i)
    \/ \E i \in 1..(MaxTasks + 1) : TaskSucceeds(i)
    \/ \E i \in 1..(MaxTasks + 1) : TaskSucceedsEmpty(i)
    \/ \E i \in 1..(MaxTasks + 1) : TaskRaises(i)
    \/ \E i \in 1..(MaxTasks + 1) : TaskTimesOut(i)
    \/ ExecFinish

ExecNext == ExecStep

ExecSpec == ExecInit /\ [][ExecNext]_vars

\* The event loop runs a coroutine that is ready (a task at the semaphore with a
\* free slot, a provider call that answered, raised or reached its timeout, gather
\* with every task done): some enabled step is eventually taken.
ExecFairSpec == ExecSpec /\ WF_vars(ExecNext)


(***************************************************************************)
(* LeaderboardEngine: brands, slugs, entries.                              *)
(***************************************************************************)

\* Brand names are sequences of characters, so that lower() and replace() act on
\* them as in the code: "A B", "a-b" and "C".
BrandPool == << <<"A", " ", "B">>, <<"a", "-", "b">>, <<"C">> >>

\* str.lower() on one character of the alphabet used
LowerChar(c) ==
    CASE c = "A" -> "a"
      [] c = "B" -> "b"
      [] c = "C" -> "c"
      [] OTHER -> c

\* slug = brand.lower().replace(" ", "-")
SlugOf(name) ==
    [i \in DOMAIN name |-> IF LowerChar(name[i]) = " " THEN "-" ELSE LowerChar(name[i])]

SlugUniverse == {SlugOf(BrandPool[i]) : i \in DOMAIN BrandPool}

\* The pool's names at the indices of S, in pool order.
RECURSIVE PickBrands(_, _)
PickBrands(S, i) ==
    IF i > Len(BrandPool) THEN <<>>
    ELSE IF i \in S THEN <<BrandPool[i]>> \o PickBrands(S, i + 1)
    ELSE PickBrands(S, i + 1)

BrandLists ==
    {PickBrands(S, 1) : S \in {T \in SUBSET (DOMAIN BrandPool) : Cardinality(T) <= MaxBrands}}

\* analysis.summary.overall_score of a brand: the analyzers are pure functions of
\* the brand and the shared responses, so every analysis of one brand of one run
\* yields the same score. "A B" scores 2, "a-b" and "C" tie at 1.
ScoreOf(b) == IF b = BrandPool[1] THEN 2 ELSE 1

\* _get_category_context: (industry, category label, keywords) from the
\* processing provider, as the BrandProfile that is saved
CategoryContext ==
    [name |-> "label", industry |-> "industry", category |-> "label", keywords |-> <<"kw">>]

\* QuerySet.model_dump() as written to queries.json
QuerySetDump(qs) == [brand |-> "label", queries |-> qs, total_count |-> Len(qs)]

\* A mutant of the filter: every stored result counts as a valid response.
ValidResultsUnfiltered(rs) == rs

\* valid_results = [r for r in results if not r.error and r.response]
ValidResults(rs) ==
    SelectSeq(rs, LAMBDA r : r.error \in {NoError, ""} /\ r.response # "")

\* extract_narratives_with_llm and extract_ranked_brands_with_llm on the valid
\* responses; ok = FALSE when the calls failed and the failure was swallowed
Extraction(bs, ok) ==
    [claims |-> IF ok THEN <<"claim">> ELSE <<>>,
     ranked |-> IF ok THEN bs ELSE <<>>]

\* the dict saved as analysis/extraction-checkpoint.json
ExtractionCheckpoint(bs, ex) ==
    [brands |-> bs, extracted_claims |-> ex.claims, ranked_lists_by_response |-> ex.ranked]

\* AnalysisResult.model_dump() of _analyze_single_brand
Analysis(b, ex) == [brand |-> b, overall_score |-> ScoreOf(b), claims |-> ex.claims]

\* _build_entry(brand, analysis): the brand is the caller's, the numbers the analysis'
BuildEntry(b, a) == [rank |-> 0, brand |-> b, overall_score |-> a.overall_score]

\* A mutant of the cache test: the cache is never used.
HasCacheNever(b, files, res) == FALSE

\* if self.resume_run_id: cached = load_json(f"analysis/{slug}.json"); if cached: ...
HasCache(b, files, res) == res /\ files[SlugOf(b)] # NoFile

\* the entries built from cached analyses, in brand order
RECURSIVE CachedEntries(_, _, _)
CachedEntries(bs, files, res) ==
    IF bs = <<>> THEN <<>>
    ELSE (IF HasCache(Head(bs), files, res)
          THEN <<BuildEntry(Head(bs), Content(files[SlugOf(Head(bs))]))>>
          ELSE <<>>) \o CachedEntries(Tail(bs), files, res)

\* to_analyze: the brands without a cached analysis, in brand order
ToAnalyze(bs, files, res) == SelectSeq(bs, LAMBDA b : ~HasCache(b, files, res))

\* the workers bound min(64, ...) of phase 5
AnalysisWorkersCap == 64

\* A mutant of the workers bound: a fixed batch size, whatever the configuration.
AnalysisWorkersFixed(c) == AnalysisWorkersCap

\* analysis_workers = max(1, min(64, self.config.execution.concurrency))
AnalysisWorkers(c) ==
    IF c < 1 THEN 1 ELSE IF c > AnalysisWorkersCap THEN AnalysisWorkersCap ELSE c

\* A mutant of the sort: an entry goes before the entries of its own score.
RECURSIVE InsertEntryUnstable(_, _)
InsertEntryUnstable(sorted, e) ==
    IF sorted = <<>> THEN <<e>>
    ELSE IF Head(sorted).overall_score <= e.overall_score THEN <<e>> \o sorted
    ELSE <<Head(sorted)>> \o InsertEntryUnstable(Tail(sorted), e)

\* list.sort(key=overall_score, reverse=True) is stable: an entry goes after every
\* entry already placed whose score is not smaller
RECURSIVE InsertEntry(_, _)
InsertEntry(sorted, e) ==
    IF sorted = <<>> THEN <<e>>
    ELSE IF Head(sorted).overall_score < e.overall_score THEN <<e>> \o sorted
    ELSE <<Head(sorted)>> \o InsertEntry(Tail(sorted), e)

RECURSIVE SortEntries(_)
SortEntries(es) ==
    IF es = <<>> THEN <<>>
    ELSE InsertEntry(SortEntries(SubSeq(es, 1, Len(es) - 1)), es[Len(es)])

\* for i, entry in enumerate(entries, 1): entry.rank = i
AssignRanks(es) == [i \in DOMAIN es |-> [es[i] EXCEPT !.rank = i]]

\* LeaderboardResult.model_dump()
LeaderboardResult(bs, es) == [brands |-> bs, entries |-> es]

\* final_status = "completed"; if self.stop_after: f"stopped-after-{self.stop_after}"
FinalStatus(sa) ==
    CASE sa = "none" -> "completed"
      [] sa = "query-generation" -> "stopped-after-query-generation"
      [] sa = "execution" -> "stopped-after-execution"

\* the metadata dict of save_metadata
Metadata(st, bs) == [status |-> st, brands |-> bs]

StopAfterValues == {"none", "query-generation", "execution"}


(***************************************************************************)
(* LeaderboardEngine.run and _execute.                                     *)
(***************************************************************************)
lbLocals == <<categoryProfile, executionRun, brands, extracted, entries, toAnalyze,
              brandPc, brandSem, lbResult>>
execConfig == <<providers, provMode, iterations, concurrency>>
execFiles == <<fResults, fByProvider>>
execLocals == <<execPc, querySet, tasks, taskPc, semValue, results, completed, failed,
                execStatus, calls, outcome>>
lbInvocation == <<cachedAtScan, analysed, procCalls, resultsAtStart>>

\* A process that starts has none of the values of the one before it.
LbForget ==
    /\ categoryProfile' = None
    /\ executionRun' = None
    /\ brands' = None
    /\ extracted' = None
    /\ entries' = <<>>
    /\ toAnalyze' = <<>>
    /\ brandPc' = <<>>
    /\ brandSem' = 0
    /\ lbResult' = None

ExecForget ==
    /\ execPc' = "idle"
    /\ querySet' = None
    /\ tasks' = <<>>
    /\ taskPc' = <<>>
    /\ semValue' = 0
    /\ results' = <<>>
    /\ completed' = 0
    /\ failed' = 0
    /\ execStatus' = "running"
    /\ calls' = <<>>
    /\ outcome' = <<>>

\* A mutant of the validation: the run directory is not looked at.
RunFoundAlways(res, dir) == TRUE

\* `if resume: if not _storage.run_dir(resume).exists(): ... raise typer.Exit(1)`
RunFound(res, dir) == ~res \/ dir

\* the `leaderboard` command up to asyncio.run(engine.run()): it exits when no
\* provider is enabled with a key, then when the run to resume is not found
CliLeaderboard ==
    /\ lbPc = "cli"
    /\ lbPc' = IF providers = <<>> THEN "exit-no-providers"
              ELSE IF ~RunFound(resume, runDir) THEN "exit-not-found"
              ELSE "begin"
    /\ UNCHANGED <<execVars, resume, stopAfter, lbLocals, lbDisk, lbWorld, lbHist>>
    /\ UNCHANGED <<pipeVars, engVars, utilVars, runDir>>

\* run: create_run_dir and the metadata with status "running"
LbBegin ==
    /\ lbPc = "begin"
    /\ fMeta' = File(Metadata("running", <<>>))
    /\ runDir' = TRUE
    /\ lbPc' = "p1"
    /\ UNCHANGED <<execVars, resume, stopAfter, lbLocals, fCategory, fQueries, fExtraction,
                   fAnalysis, fLeaderboard, fReports, lbWorld, lbHist>>
    /\ UNCHANGED <<pipeVars, engVars, utilVars>>

\* the test of a phase's guard on a loaded file: `if self.resume_run_id: data =
\* load_json(...)`, then `if data:`
Loaded(res, f) == res /\ f # NoFile

\* Step 1 with category-profile.json loaded
LbCategoryLoaded ==
    /\ lbPc = "p1"
    /\ Loaded(resume, fCategory)
    /\ categoryProfile' = Some(Content(fCategory))
    /\ lbPc' = "p2"
    /\ UNCHANGED <<execVars, resume, stopAfter, executionRun, brands, extracted, entries,
                   toAnalyze, brandPc, brandSem, lbResult, lbDisk, lbWorld, lbHist>>
    /\ UNCHANGED <<pipeVars, engVars, utilVars, runDir>>

\* A mutant of step 1: the category context is not saved.
LbCategoryFetchedNotSaved ==
    /\ lbPc = "p1"
    /\ ~Loaded(resume, fCategory)
    /\ procCalls' = Append(procCalls, "category")
    /\ categoryProfile' = Some(CategoryContext)
    /\ lbPc' = "p2"
    /\ UNCHANGED <<execVars, resume, stopAfter, executionRun, brands, extracted, entries,
                   toAnalyze, brandPc, brandSem, lbResult, lbDisk, lbWorld, cachedAtScan,
                   analysed, flaky, resultsAtStart>>
    /\ UNCHANGED <<pipeVars, engVars, utilVars, runDir>>

\* Step 1 with _get_category_context answered and category-profile.json saved
LbCategoryFetched ==
    /\ lbPc = "p1"
    /\ ~Loaded(resume, fCategory)
    /\ procCalls' = Append(procCalls, "category")
    /\ categoryProfile' = Some(CategoryContext)
    /\ fCategory' = File(CategoryContext)
    /\ lbPc' = "p2"
    /\ UNCHANGED <<execVars, resume, stopAfter, executionRun, brands, extracted, entries,
                   toAnalyze, brandPc, brandSem, lbResult, fMeta, fQueries, fExtraction,
                   fAnalysis, fLeaderboard, fReports, lbWorld, cachedAtScan, analysed,
                   flaky, resultsAtStart>>
    /\ UNCHANGED <<pipeVars, engVars, utilVars, runDir>>

\* Step 1 with _get_category_context raising (provider error, unparsable JSON)
LbCategoryFails ==
    /\ lbPc = "p1"
    /\ ~Loaded(resume, fCategory)
    /\ procCalls' = Append(procCalls, "category")
    /\ flaky' = TRUE
    /\ lbPc' = "failing"
    /\ UNCHANGED <<execVars, resume, stopAfter, lbLocals, lbDisk, lbWorld, cachedAtScan,
                   analysed, resultsAtStart>>
    /\ UNCHANGED <<pipeVars, engVars, utilVars, runDir>>

\* Step 2 with queries.json loaded; an empty query list raises
LbQueriesLoaded ==
    /\ lbPc = "p2"
    /\ Loaded(resume, fQueries)
    /\ querySet' = Some(Content(fQueries).queries)
    /\ lbPc' = IF Content(fQueries).queries = <<>> THEN "failing" ELSE "p2done"
    /\ UNCHANGED <<execConfig, execFiles, execPc, tasks, taskPc, semValue, results,
                   completed, failed, execStatus, calls, outcome, resume, stopAfter,
                   lbLocals, lbDisk, lbWorld, lbHist>>
    /\ UNCHANGED <<pipeVars, engVars, utilVars, runDir>>

\* Step 2 with generate_leaderboard_queries answered: queries.json is saved, then
\* an empty query list raises
LbQueriesGenerated ==
    /\ lbPc = "p2"
    /\ ~Loaded(resume, fQueries)
    /\ procCalls' = Append(procCalls, "queries")
    /\ querySet' = Some(QueryIds(worldCount))
    /\ fQueries' = File(QuerySetDump(QueryIds(worldCount)))
    /\ lbPc' = IF worldCount = 0 THEN "failing" ELSE "p2done"
    /\ UNCHANGED <<execConfig, execFiles, execPc, tasks, taskPc, semValue, results,
                   completed, failed, execStatus, calls, outcome, resume, stopAfter,
                   lbLocals, fMeta, fCategory, fExtraction, fAnalysis, fLeaderboard,
                   fReports, lbWorld, cachedAtScan, analysed, flaky, resultsAtStart>>
    /\ UNCHANGED <<pipeVars, engVars, utilVars, runDir>>

\* Step 2 with generate_leaderboard_queries raising
LbQueriesFails ==
    /\ lbPc = "p2"
    /\ ~Loaded(resume, fQueries)
    /\ procCalls' = Append(procCalls, "queries")
    /\ flaky' = TRUE
    /\ lbPc' = "failing"
    /\ UNCHANGED <<execVars, resume, stopAfter, lbLocals, lbDisk, lbWorld, cachedAtScan,
                   analysed, resultsAtStart>>
    /\ UNCHANGED <<pipeVars, engVars, utilVars, runDir>>

\* A mutant of the stop test: the run never stops after query generation.
StopsAfterQueriesNever(sa) == FALSE

\* if self.stop_after == "query-generation"
StopsAfterQueries(sa) == sa = "query-generation"

\* the early return after step 2
LbStopAfterQueries ==
    /\ lbPc = "p2done"
    /\ StopsAfterQueries(stopAfter)
    /\ lbResult' = Some(LeaderboardResult(<<>>, <<>>))
    /\ lbPc' = "finalize"
    /\ UNCHANGED <<execVars, resume, stopAfter, categoryProfile, executionRun, brands,
                   extracted, entries, toAnalyze, brandPc, brandSem, lbDisk, lbWorld,
                   lbHist>>
    /\ UNCHANGED <<pipeVars, engVars, utilVars, runDir>>

\* A mutant of the execution guard: stored results are never reused.
SkipExecutionNever(res, f) == FALSE

\* Step 3's guard: `existing_execution and existing_execution.results`
SkipExecution(res, f) == Loaded(res, f) /\ Content(f).results # <<>>

\* Step 3 with the stored results reused; no valid result raises
LbExecutionLoaded ==
    /\ lbPc = "p2done"
    /\ ~StopsAfterQueries(stopAfter)
    /\ SkipExecution(resume, fResults)
    /\ executionRun' = Some(Content(fResults))
    /\ lbPc' = IF ValidResults(Content(fResults).results) = <<>> THEN "failing" ELSE "p4"
    /\ UNCHANGED <<execVars, resume, stopAfter, categoryProfile, brands, extracted,
                   entries, toAnalyze, brandPc, brandSem, lbResult, lbDisk, lbWorld,
                   lbHist>>
    /\ UNCHANGED <<pipeVars, engVars, utilVars, runDir>>

\* Step 3 calling ExecutionStage.execute on a RunContext that holds the query set
LbExecutionStarts ==
    /\ lbPc = "p2done"
    /\ ~StopsAfterQueries(stopAfter)
    /\ ~SkipExecution(resume, fResults)
    /\ execPc' = "ready"
    /\ lbPc' = "p3exec"
    /\ UNCHANGED <<execConfig, execFiles, querySet, tasks, taskPc, semValue, results,
                   completed, failed, execStatus, calls, outcome, resume, stopAfter,
                   lbLocals, lbDisk, lbWorld, lbHist>>
    /\ UNCHANGED <<pipeVars, engVars, utilVars, runDir>>

\* Step 3 after ExecutionStage.execute: its exception propagates; no valid result raises
LbExecutionReturns ==
    /\ lbPc = "p3exec"
    /\ execPc \in {"returned", "raised"}
    /\ executionRun' =
          IF execPc = "returned"
          THEN Some(ExecutionRunDump(results, Len(tasks), completed, failed, execStatus))
          ELSE None
    /\ lbPc' = IF execPc = "raised" \/ ValidResults(results) = <<>> THEN "failing" ELSE "p4"
    /\ execPc' = "idle"
    /\ UNCHANGED <<execConfig, execFiles, querySet, tasks, taskPc, semValue, results,
                   completed, failed, execStatus, calls, outcome, resume, stopAfter,
                   categoryProfile, brands, extracted, entries, toAnalyze, brandPc,
                   brandSem, lbResult, lbDisk, lbWorld, lbHist>>
    /\ UNCHANGED <<pipeVars, engVars, utilVars, runDir>>

\* Step 4 with the extraction checkpoint loaded
LbExtractionLoaded ==
    /\ lbPc = "p4"
    /\ Loaded(resume, fExtraction)
    /\ brands' = Some(Content(fExtraction).brands)
    /\ extracted' = Some([claims |-> Content(fExtraction).extracted_claims,
                          ranked |-> Content(fExtraction).ranked_lists_by_response])
    /\ lbPc' = "p5"
    /\ UNCHANGED <<execVars, resume, stopAfter, categoryProfile, executionRun, entries,
                   toAnalyze, brandPc, brandSem, lbResult, lbDisk, lbWorld, lbHist>>
    /\ UNCHANGED <<pipeVars, engVars, utilVars, runDir>>

\* Step 4 computed: brands extracted and deduplicated, ranked lists and claims
\* extracted, the checkpoint saved. ok = FALSE: the calls for ranked lists and
\* claims failed and the helpers swallowed the failure. No brand raises.
LbExtraction(ok) ==
    /\ lbPc = "p4"
    /\ ~Loaded(resume, fExtraction)
    /\ procCalls' = Append(procCalls, "extraction")
    /\ flaky' = (flaky \/ ~ok)
    /\ IF worldBrands = <<>>
       THEN /\ lbPc' = "failing"
            /\ UNCHANGED <<brands, extracted, fExtraction>>
       ELSE /\ lbPc' = "p5"
            /\ brands' = Some(worldBrands)
            /\ extracted' = Some(Extraction(worldBrands, ok))
            /\ fExtraction' =
                  File(ExtractionCheckpoint(worldBrands, Extraction(worldBrands, ok)))
    /\ UNCHANGED <<execVars, resume, stopAfter, categoryProfile, executionRun, entries,
                   toAnalyze, brandPc, brandSem, lbResult, fMeta, fCategory, fQueries,
                   fAnalysis, fLeaderboard, fReports, lbWorld, cachedAtScan, analysed,
                   resultsAtStart>>
    /\ UNCHANGED <<pipeVars, engVars, utilVars, runDir>>

\* Step 4 with every brand-extraction call failing: extract_all_brands_with_llm
\* swallows the failures and returns no brand, which raises
LbExtractionFails ==
    /\ lbPc = "p4"
    /\ ~Loaded(resume, fExtraction)
    /\ procCalls' = Append(procCalls, "extraction")
    /\ flaky' = TRUE
    /\ lbPc' = "failing"
    /\ UNCHANGED <<execVars, resume, stopAfter, lbLocals, lbDisk, lbWorld, cachedAtScan,
                   analysed, resultsAtStart>>
    /\ UNCHANGED <<pipeVars, engVars, utilVars, runDir>>

\* Step 5 up to the fan-out: cached analyses become entries, the other brands go
\* to to_analyze, the semaphore is made
LbScanBrands ==
    /\ lbPc = "p5"
    /\ entries' = CachedEntries(brands[1], fAnalysis, resume)
    /\ toAnalyze' = ToAnalyze(brands[1], fAnalysis, resume)
    /\ brandPc' = [i \in DOMAIN ToAnalyze(brands[1], fAnalysis, resume) |-> "waiting"]
    /\ brandSem' = AnalysisWorkers(concurrency)
    /\ cachedAtScan' = {sl \in DOMAIN fAnalysis : fAnalysis[sl] # NoFile}
    /\ lbPc' = "p5run"
    /\ UNCHANGED <<execVars, resume, stopAfter, categoryProfile, executionRun, brands,
                   extracted, lbResult, lbDisk, lbWorld, analysed, procCalls, flaky,
                   resultsAtStart>>
    /\ UNCHANGED <<pipeVars, engVars, utilVars, runDir>>

\* _analyze_with_limit: `async with semaphore` (waiters are served in task order)
BrandAcquire(i) ==
    /\ lbPc = "p5run"
    /\ i \in DOMAIN brandPc
    /\ brandPc[i] = "waiting"
    /\ brandSem > 0
    /\ \A j \in DOMAIN brandPc : brandPc[j] = "waiting" => i <= j
    /\ brandPc' = [brandPc EXCEPT ![i] = "inflight"]
    /\ brandSem' = brandSem - 1
    /\ UNCHANGED <<execVars, lbPc, resume, stopAfter, categoryProfile, executionRun,
                   brands, extracted, entries, toAnalyze, lbResult, lbDisk, lbWorld,
                   lbHist>>
    /\ UNCHANGED <<pipeVars, engVars, utilVars, runDir>>

\* _analyze_single_brand finished: analysis/{slug}.json saved, the semaphore
\* released, the entry appended by the as_completed loop
BrandAnalysed(i) ==
    /\ lbPc = "p5run"
    /\ i \in DOMAIN brandPc
    /\ brandPc[i] = "inflight"
    /\ fAnalysis' = [fAnalysis EXCEPT
                       ![SlugOf(toAnalyze[i])] = File(Analysis(toAnalyze[i], extracted[1]))]
    /\ entries' = Append(entries,
                         BuildEntry(toAnalyze[i], Analysis(toAnalyze[i], extracted[1])))
    /\ analysed' = Append(analysed, toAnalyze[i])
    /\ brandPc' = [brandPc EXCEPT ![i] = "done"]
    /\ brandSem' = brandSem + 1
    /\ UNCHANGED <<execVars, lbPc, resume, stopAfter, categoryProfile, executionRun,
                   brands, extracted, toAnalyze, lbResult, fMeta, fCategory, fQueries,
                   fExtraction, fLeaderboard, fReports, lbWorld, cachedAtScan, procCalls,
                   flaky, resultsAtStart>>
    /\ UNCHANGED <<pipeVars, engVars, utilVars, runDir>>

\* Step 6 and the reports: sort, ranks, leaderboard.json, reports
LbRank ==
    /\ lbPc = "p5run"
    /\ \A i \in DOMAIN brandPc : brandPc[i] = "done"
    /\ entries' = AssignRanks(SortEntries(entries))
    /\ lbResult' = Some(LeaderboardResult(brands[1], AssignRanks(SortEntries(entries))))
    /\ fLeaderboard' =
          File(LeaderboardResult(brands[1], AssignRanks(SortEntries(entries))))
    /\ fReports' = File("reports")
    /\ lbPc' = "finalize"
    /\ UNCHANGED <<execVars, resume, stopAfter, categoryProfile, executionRun, brands,
                   extracted, toAnalyze, brandPc, brandSem, fMeta, fCategory, fQueries,
                   fExtraction, fAnalysis, lbWorld, lbHist>>
    /\ UNCHANGED <<pipeVars, engVars, utilVars, runDir>>

\* run after _execute returned: the final metadata
LbFinalize ==
    /\ lbPc = "finalize"
    /\ fMeta' = File(Metadata(FinalStatus(stopAfter), lbResult[1].brands))
    /\ lbPc' = "returned"
    /\ UNCHANGED <<execVars, resume, stopAfter, lbLocals, fCategory, fQueries,
                   fExtraction, fAnalysis, fLeaderboard, fReports, lbWorld, lbHist>>
    /\ UNCHANGED <<pipeVars, engVars, utilVars, runDir>>

\* run after _execute raised: metadata "failed", then the exception goes on
LbFail ==
    /\ lbPc = "failing"
    /\ fMeta' = File(Metadata("failed", <<>>))
    /\ lbPc' = "raised"
    /\ UNCHANGED <<execVars, resume, stopAfter, lbLocals, fCategory, fQueries,
                   fExtraction, fAnalysis, fLeaderboard, fReports, lbWorld, lbHist>>
    /\ UNCHANGED <<pipeVars, engVars, utilVars, runDir>>

RunningPcs == {"cli", "begin", "p1", "p2", "p2done", "p3exec", "p4", "p5", "p5run", "finalize",
               "failing"}

\* The process is killed: what it held in memory is lost, the files stay.
Crash ==
    /\ lbPc \in RunningPcs
    /\ lbPc' = "dead"
    /\ LbForget
    /\ ExecForget
    /\ cachedAtScan' = {}
    /\ analysed' = <<>>
    /\ procCalls' = <<>>
    /\ resultsAtStart' = NoFile
    /\ UNCHANGED <<execConfig, execFiles, resume, stopAfter, lbDisk, lbWorld, flaky>>
    /\ UNCHANGED <<pipeVars, engVars, utilVars, runDir>>

\* A new process: the `leaderboard` command with --resume and --stop-after sa
Resume(sa) ==
    /\ lbPc \in {"dead", "returned", "raised"}
    /\ lbPc' = "cli"
    /\ resume' = TRUE
    /\ stopAfter' = sa
    /\ LbForget
    /\ ExecForget
    /\ cachedAtScan' = {}
    /\ analysed' = <<>>
    /\ procCalls' = <<>>
    /\ resultsAtStart' = fResults
    /\ UNCHANGED <<execConfig, execFiles, lbDisk, lbWorld, flaky>>
    /\ UNCHANGED <<pipeVars, engVars, utilVars, runDir>>

\* The processing provider and the execution providers of a leaderboard run
\* answer the same way every time they are asked.
DeterministicModes == ProviderModes \ {"flaky"}

\* The `leaderboard` command is given, without --resume, or with --resume and the
\* id of a run directory that does not exist or is empty.
LbInit ==
    /\ lbPc = "cli"
    /\ resume \in BOOLEAN
    /\ runDir \in {d \in BOOLEAN : d => resume}
    /\ stopAfter \in StopAfterValues
    /\ worldCount \in 0..MaxQueries
    /\ \E m \in 0..MaxProviders, k \in 1..MaxIterations :
          /\ worldCount * m * k <= MaxLbTasks
          /\ providers = SubSeq(ProviderNames, 1, m)
          /\ provMode \in [Range(SubSeq(ProviderNames, 1, m)) -> DeterministicModes]
          /\ iterations = k
    /\ worldBrands \in BrandLists
    /\ concurrency \in 1..MaxConcurrency
    /\ execPc = "idle"
    /\ querySet = None
    /\ tasks = <<>>
    /\ taskPc = <<>>
    /\ semValue = 0
    /\ results = <<>>
    /\ completed = 0
    /\ failed = 0
    /\ execStatus = "running"
    /\ calls = <<>>
    /\ outcome = <<>>
    /\ fResults = NoFile
    /\ fByProvider = <<>>
    /\ categoryProfile = None
    /\ executionRun = None
    /\ brands = None
    /\ extracted = None
    /\ entries = <<>>
    /\ toAnalyze = <<>>
    /\ brandPc = <<>>
    /\ brandSem = 0
    /\ lbResult = None
    /\ fMeta = NoFile
    /\ fCategory = NoFile
    /\ fQueries = NoFile
    /\ fExtraction = NoFile
    /\ fAnalysis = [sl \in SlugUniverse |-> NoFile]
    /\ fLeaderboard = NoFile
    /\ fReports = NoFile
    /\ cachedAtScan = {}
    /\ analysed = <<>>
    /\ procCalls = <<>>
    /\ flaky = FALSE
    /\ resultsAtStart = NoFile
    /\ PipeOff
    /\ EngOff
    /\ UtilOff

LbNext ==
    \/ CliLeaderboard
    \/ LbBegin
    \/ LbCategoryLoaded
    \/ LbCategoryFetched
    \/ LbCategoryFails
    \/ LbQueriesLoaded
    \/ LbQueriesGenerated
    \/ LbQueriesFails
    \/ LbStopAfterQueries
    \/ LbExecutionLoaded
    \/ LbExecutionStarts
    \/ ExecStep
    \/ LbExecutionReturns
    \/ LbExtractionLoaded
    \/ \E ok \in BOOLEAN : LbExtraction(ok)
    \/ LbExtractionFails
    \/ LbScanBrands
    \/ \E i \in 1..(MaxBrands + 1) : BrandAcquire(i)
    \/ \E i \in 1..(MaxBrands + 1) : BrandAnalysed(i)
    \/ LbRank
    \/ LbFinalize
    \/ LbFail
    \/ Crash
    \/ \E sa \in StopAfterValues : Resume(sa)

LbSpec == LbInit /\ [][LbNext]_vars

\* One step of phase 5's fan-out.
AnalysisStep ==
    \/ \E i \in 1..(MaxBrands + 1) : BrandAcquire(i)
    \/ \E i \in 1..(MaxBrands + 1) : BrandAnalysed(i)

\* The event loop runs a brand task that is ready (at the semaphore with a free
\* slot, or with its analysis thread finished). The process can still be killed.
LbFairSpec == LbSpec /\ WF_vars(AnalysisStep)


(***************************************************************************)
(* Pipeline.run.                                                           *)
(***************************************************************************)
\* The stages GeoEngine adds to its pipeline, in order.
StageNames == <<"research", "query-generation", "execution", "analysis", "reporting">>

\* The stages GeoEngine may register a hook after (interactive mode).
HookableStages == {"research", "query-generation"}

\* str(exc) of the exceptions a stage or a hook raises
Messages == {"boom", ""}

\* A mutant of the error entry: the message alone.
ErrorEntryMessageOnly(name, msg) == <<msg>>

\* f"[{stage.name}] {exc}"
ErrorEntry(name, msg) == <<"[", name, "] ", msg>>

\* The variables that only ExecutionStage.execute uses, in a specification without it.
ExecIdle ==
    /\ execPc = "idle"
    /\ querySet = None
    /\ iterations = 1
    /\ tasks = <<>>
    /\ taskPc = <<>>
    /\ semValue = 0
    /\ results = <<>>
    /\ completed = 0
    /\ failed = 0
    /\ execStatus = "running"
    /\ calls = <<>>
    /\ outcome = <<>>
    /\ fResults = NoFile
    /\ fByProvider = <<>>

\* The execution variables of a specification that runs no execution stage.
ExecOff ==
    /\ ExecIdle
    /\ providers = <<>>
    /\ provMode = <<>>
    /\ concurrency = 1

\* A mutant of the loop: it ends after the first stage.
AfterStageEndsLoop(i) == "finish"

\* where run goes after stage i and its hook: the next stage, or the end of the loop
AfterStage(i) == IF i < Len(stages) THEN "stage" ELSE "finish"

\* async def run(self, ctx): the call binds when no other keyword is passed
RunAccepts(arg) == arg = None

\* run(ctx, stop_after=...) does not bind: TypeError, the body of run never starts
PipeCallRejected ==
    /\ pipePc = "start"
    /\ ~RunAccepts(stopArg)
    /\ raised' = Some([by |-> "call", stage |-> "", message |-> "unexpected keyword"])
    /\ pipePc' = "raised"
    /\ UNCHANGED <<stages, hooks, stageIdx, ctxStatus, ctxErrors, executed, errorsAtStart,
                   stopArg>>
    /\ UNCHANGED <<execVars, lbVars, engVars, utilVars, runDir>>

\* run is called: current = ctx; current.status = "running"
PipeStart ==
    /\ pipePc = "start"
    /\ RunAccepts(stopArg)
    /\ ctxStatus' = "running"
    /\ stageIdx' = 1
    /\ pipePc' = IF stages = <<>> THEN "finish" ELSE "stage"
    /\ UNCHANGED <<stages, hooks, ctxErrors, executed, raised, errorsAtStart, stopArg>>
    /\ UNCHANGED <<execVars, lbVars, engVars, utilVars, runDir>>

\* stage.execute(current) returned the context
StageReturns ==
    /\ pipePc = "stage"
    /\ executed' = Append(executed, stages[stageIdx])
    /\ IF stages[stageIdx] \in hooks
       THEN pipePc' = "hook" /\ stageIdx' = stageIdx
       ELSE pipePc' = AfterStage(stageIdx) /\ stageIdx' = stageIdx + 1
    /\ UNCHANGED <<stages, hooks, ctxStatus, ctxErrors, raised, errorsAtStart, stopArg>>
    /\ UNCHANGED <<execVars, lbVars, engVars, utilVars, runDir>>

\* stage.execute(current) raised: the except branch, then `raise`
StageRaises(msg) ==
    /\ pipePc = "stage"
    /\ executed' = Append(executed, stages[stageIdx])
    /\ ctxStatus' = "failed"
    /\ ctxErrors' = Append(ctxErrors, ErrorEntry(stages[stageIdx], msg))
    /\ raised' = Some([by |-> "stage", stage |-> stages[stageIdx], message |-> msg])
    /\ pipePc' = "raised"
    /\ UNCHANGED <<stages, hooks, stageIdx, errorsAtStart, stopArg>>
    /\ UNCHANGED <<execVars, lbVars, engVars, utilVars, runDir>>

\* the hook registered after the stage returned the context
HookReturns ==
    /\ pipePc = "hook"
    /\ pipePc' = AfterStage(stageIdx)
    /\ stageIdx' = stageIdx + 1
    /\ UNCHANGED <<stages, hooks, ctxStatus, ctxErrors, executed, raised, errorsAtStart, stopArg>>
    /\ UNCHANGED <<execVars, lbVars, engVars, utilVars, runDir>>

\* the hook raised: it is called outside the try, the exception leaves run as it is
HookRaises(msg) ==
    /\ pipePc = "hook"
    /\ raised' = Some([by |-> "hook", stage |-> stages[stageIdx], message |-> msg])
    /\ pipePc' = "raised"
    /\ UNCHANGED <<stages, hooks, stageIdx, ctxStatus, ctxErrors, executed, errorsAtStart, stopArg>>
    /\ UNCHANGED <<execVars, lbVars, engVars, utilVars, runDir>>

\* after the loop: current.status = "completed"; return current
PipeFinish ==
    /\ pipePc = "finish"
    /\ ctxStatus' = "completed"
    /\ pipePc' = "returned"
    /\ UNCHANGED <<stages, hooks, stageIdx, ctxErrors, executed, raised, errorsAtStart, stopArg>>
    /\ UNCHANGED <<execVars, lbVars, engVars, utilVars, runDir>>

\* Pipeline.run(ctx) is called on a pipeline of the first n engine stages, with
\* hooks after some of them, on a context that may already hold an error.
PipeInit ==
    /\ pipePc = "start"
    /\ \E n \in 0..Len(StageNames) : stages = SubSeq(StageNames, 1, n)
    /\ hooks \in SUBSET HookableStages
    /\ stageIdx = 0
    /\ ctxStatus = "pending"
    /\ ctxErrors \in {<<>>, <<ErrorEntry("earlier", "boom")>>}
    /\ errorsAtStart = ctxErrors
    /\ executed = <<>>
    /\ raised = None
    /\ stopArg \in {None} \cup {Some(v) : v \in {"none"} \cup Range(StageNames)}
    /\ ExecOff
    /\ LbOff
    /\ EngOff
    /\ UtilOff
    /\ runDir = FALSE

PipeNext ==
    \/ PipeCallRejected
    \/ PipeStart
    \/ StageReturns
    \/ \E msg \in Messages : StageRaises(msg)
    \/ HookReturns
    \/ \E msg \in Messages : HookRaises(msg)
    \/ PipeFinish

PipeSpec == PipeInit /\ [][PipeNext]_vars


(***************************************************************************)
(* VoyageGeoEngine.run and the `run` command.                              *)
(***************************************************************************)
\* the metadata dict VoyageGeoEngine.run saves ("errors" only when it failed)
EngineMetadata(st, errs) == [status |-> st, errors |-> errs]

\* _load_resume_context: brand-profile.json and queries.json, when they exist
ResumeContext(res, fp, fq) ==
    [brand_profile |-> IF res THEN fp ELSE None, query_set |-> IF res THEN fq ELSE None]

\* run: create_run_context and, on a resume, _load_resume_context
EngCreateContext ==
    /\ engPc = "new"
    /\ ctxProfile' = Some(ResumeContext(resume, fProfile, fQueries))
    /\ engPc' = "begin"
    /\ UNCHANGED <<fProfile, stageFails, utilVars, runDir, execVars, lbVars, pipeVars>>

\* run: create_run_dir, metadata "running", then the call
\* self.pipeline.run(ctx, stop_after=self.stop_after)
EngBegin ==
    /\ engPc = "begin"
    /\ runDir' = TRUE
    /\ fMeta' = File(EngineMetadata("running", <<>>))
    /\ pipePc' = "start"
    /\ stopArg' = Some(stopAfter)
    /\ engPc' = "pipeline"
    /\ UNCHANGED <<ctxProfile, fProfile, stageFails, utilVars, execVars, lbMem, fCategory, fQueries,
                   fExtraction, fAnalysis, fLeaderboard, fReports, lbWorld, lbHist, stages,
                   hooks, stageIdx, ctxStatus, ctxErrors, executed, raised, errorsAtStart>>

\* run after the pipeline call: metadata "completed" and the result, or metadata
\* "failed" with ctx.errors and the exception raised again
EngPipelineEnds ==
    /\ engPc = "pipeline"
    /\ pipePc \in {"returned", "raised"}
    /\ fMeta' = IF pipePc = "returned"
                THEN File(EngineMetadata("completed", <<>>))
                ELSE File(EngineMetadata("failed", ctxErrors))
    /\ engPc' = IF pipePc = "returned" THEN "returned" ELSE "raised"
    /\ UNCHANGED <<ctxProfile, fProfile, stageFails, utilVars, runDir, execVars, lbMem, fCategory,
                   fQueries, fExtraction, fAnalysis, fLeaderboard, fReports, lbWorld,
                   lbHist, pipeVars>>

\* VoyageGeoEngine(config, interactive=..., resume_run_id=..., stop_after=...).run()
\* is called; the pipeline holds the five stages and, when interactive, the hooks.
EngInit ==
    /\ engPc = "new"
    /\ resume \in BOOLEAN
    /\ stopAfter \in {"none"} \cup Range(StageNames)
    /\ runDir \in {d \in BOOLEAN : d => resume}
    /\ fProfile \in {f \in {NoFile, File("profile")} : f # NoFile => runDir}
    /\ fQueries \in {f \in {NoFile, File(QuerySetDump(QueryIds(1)))} : f # NoFile => runDir}
    /\ fMeta = NoFile
    /\ ctxProfile = None
    /\ stageFails \in {F \in SUBSET Range(StageNames) : Cardinality(F) <= 1}
    /\ pipePc = "off"
    /\ stages = StageNames
    /\ hooks \in {{}, HookableStages}
    /\ stageIdx = 0
    /\ ctxStatus = "pending"
    /\ ctxErrors = <<>>
    /\ executed = <<>>
    /\ raised = None
    /\ errorsAtStart = <<>>
    /\ stopArg = None
    /\ ExecOff
    /\ LbIdle
    /\ UtilOff

EngNext ==
    \/ EngCreateContext
    \/ EngBegin
    \/ PipeCallRejected
    \/ EngPipelineEnds

EngSpec == EngInit /\ [][EngNext]_vars


(***************************************************************************)
(* The `run` and `leaderboard` commands.                                   *)
(***************************************************************************)
\* the `run` command up to asyncio.run(engine.run()): it exits when no provider
\* is enabled with a key, then when the run to resume is not found; then
\* VoyageGeoEngine(..., as_of_date=as_of_date) does not bind (__init__ takes no
\* as_of_date) and the TypeError ends the command
CliRun ==
    /\ engPc = "cli"
    /\ engPc' = IF providers = <<>> THEN "exit-no-providers"
               ELSE IF ~RunFound(resume, runDir) THEN "exit-not-found"
               ELSE "raised"
    /\ UNCHANGED <<ctxProfile, fProfile, stageFails, utilVars, runDir, execVars, lbVars, pipeVars>>

\* The `run` command is given, with or without --resume.
CliRunInit ==
    /\ engPc = "cli"
    /\ resume \in BOOLEAN
    /\ stopAfter \in {"none"} \cup Range(StageNames)
    /\ runDir \in {d \in BOOLEAN : d => resume}
    /\ fProfile \in {f \in {NoFile, File("profile")} : f # NoFile => runDir}
    /\ fQueries \in {f \in {NoFile, File(QuerySetDump(QueryIds(1)))} : f # NoFile => runDir}
    /\ fMeta = NoFile
    /\ ctxProfile = None
    /\ stageFails = {}
    /\ \E m \in 0..MaxProviders :
          /\ providers = SubSeq(ProviderNames, 1, m)
          /\ provMode \in [Range(SubSeq(ProviderNames, 1, m)) -> DeterministicModes]
    /\ concurrency = 1
    /\ ExecIdle
    /\ LbIdle
    /\ PipeOff
    /\ UtilOff

CliInit == LbInit \/ CliRunInit

CliNext == LbNext \/ CliRun

CliSpec == CliInit /\ [][CliNext]_vars

(***************************************************************************)
(* deduplicate_brands (utils/text.py).                                     *)
(***************************************************************************)
MaxNames == 3
MaxPairs == 2

\* The names extraction can hand over: "A", "aB", "B", "C". Their lowercased
\* forms differ (extract_all_brands_with_llm keeps one name per lowercased form).
DedupNamePool == << <<"A">>, <<"a", "B">>, <<"B">>, <<"C">> >>

\* The names a reply can hold: the pool's, and "c", which is in no list but
\* matches "C" when lowercased.
ReplyNames == Range(DedupNamePool) \cup {<<"c">>}

\* A value of the reply's JSON object: Some(name) for a string, None for a value
\* that is not a string.
ReplyValues == {None} \cup {Some(n) : n \in ReplyNames}

NameLists ==
    {l \in UNION {[1..n -> Range(DedupNamePool)] : n \in 0..MaxNames} :
        \A i, j \in DOMAIN l : i # j => l[i] # l[j]}

\* str.lower()
Lower(name) == [i \in DOMAIN name |-> LowerChar(name[i])]

\* x in y, for strings
Contains(x, y) == \E k \in 1..(Len(y) - Len(x) + 1) : SubSeq(y, k, k + Len(x) - 1) = x

\* name.lower() in other.lower() or other.lower() in name.lower()
Related(a, b) == Contains(Lower(a), Lower(b)) \/ Contains(Lower(b), Lower(a))

\* m[k] = v on a dict
MapSet(m, k, v) == [x \in DOMAIN m \cup {k} |-> IF x = k THEN v ELSE m[x]]

\* the names of bs from index j on that are not at index i, not merged, and
\* related to bs[i]
RECURSIVE GroupOthers(_, _, _, _)
GroupOthers(bs, i, j, merged) ==
    IF j > Len(bs) THEN <<>>
    ELSE IF j # i /\ bs[j] \notin merged /\ Related(bs[i], bs[j])
         THEN <<bs[j]>> \o GroupOthers(bs, i, j + 1, merged)
         ELSE GroupOthers(bs, i, j + 1, merged)

\* max(group, key=len): the first of the longest
RECURSIVE MaxByLen(_)
MaxByLen(group) ==
    IF Len(group) = 1 THEN group[1]
    ELSE IF Len(MaxByLen(Tail(group))) > Len(group[1]) THEN MaxByLen(Tail(group))
         ELSE group[1]

\* for member in group: alias_map[member] = canonical
RECURSIVE MapGroup(_, _, _)
MapGroup(m, group, canonical) ==
    IF group = <<>> THEN m
    ELSE MapGroup(MapSet(m, group[1], canonical), Tail(group), canonical)

\* layer 1 from index i on; st holds alias_map, canonical_set and merged
RECURSIVE Layer1From(_, _, _)
Layer1From(bs, i, st) ==
    IF i > Len(bs) THEN st
    ELSE IF bs[i] \in st.merged THEN Layer1From(bs, i + 1, st)
    ELSE LET group == <<bs[i]>> \o GroupOthers(bs, i, 1, st.merged)
             canonical == MaxByLen(group)
             merged1 == st.merged \cup (Range(group) \ {canonical})
         IN  Layer1From(bs, i + 1,
                 [alias_map |-> MapGroup(st.alias_map, group, canonical),
                  canonical_set |-> IF canonical \notin merged1
                                    THEN Append(st.canonical_set, canonical)
                                    ELSE st.canonical_set,
                  merged |-> merged1 \cup {canonical}])

Layer1(bs) == Layer1From(bs, 1, [alias_map |-> <<>>, canonical_set |-> <<>>, merged |-> {}])

\* {c.lower(): c for c in canonical_set}
RECURSIVE LowerMap(_)
LowerMap(cs) ==
    IF cs = <<>> THEN <<>>
    ELSE MapSet(LowerMap(SubSeq(cs, 1, Len(cs) - 1)), Lower(cs[Len(cs)]), cs[Len(cs)])

\* dict.get: None when the key is missing
Get(m, k) == IF k \in DOMAIN m THEN Some(m[k]) ELSE None

\* list.remove(x): the first occurrence
RECURSIVE Remove(_, _)
Remove(l, x) ==
    IF l = <<>> THEN <<>>
    ELSE IF l[1] = x THEN Tail(l)
    ELSE <<l[1]>> \o Remove(Tail(l), x)

\* the test of one (alias_raw, canon_raw) pair against canonical_lower_map
PairAccepted(lm, a, c) ==
    /\ c # None
    /\ Get(lm, Lower(a)) # None
    /\ Get(lm, Lower(c[1])) # None
    /\ Get(lm, Lower(a))[1] # Get(lm, Lower(c[1]))[1]

\* canon_match of an accepted pair
CanonMatch(lm, c) == Get(lm, Lower(c[1]))[1]

\* the merge of an accepted pair
MergedSet(cs, lm, a) ==
    IF Get(lm, Lower(a))[1] \in Range(cs) THEN Remove(cs, Get(lm, Lower(a))[1]) ELSE cs

MergedMap(m, lm, a, c) ==
    MapSet([k \in DOMAIN m |-> IF m[k] = Get(lm, Lower(a))[1] THEN CanonMatch(lm, c) ELSE m[k]],
           Get(lm, Lower(a))[1], CanonMatch(lm, c))

\* for b in brands: if b not in alias_map: alias_map[b] = b
FilledMap(m, bs) == [b \in DOMAIN m \cup Range(bs) |-> IF b \in DOMAIN m THEN m[b] ELSE b]

\* if len(brands) <= 1: return brands, {b: b for b in brands}
DedupReturnsEarly ==
    /\ dedupPc = "called"
    /\ Len(dedupInput) <= 1
    /\ canonical_set' = dedupInput
    /\ alias_map' = [b \in Range(dedupInput) |-> b]
    /\ dedupPc' = "returned"
    /\ UNCHANGED <<dedupInput, canonical_lower_map, llm_aliases, layer1>>
    /\ UNCHANGED <<execVars, lbVars, pipeVars, engVars, runDir, rankVars, jobVars>>

\* Layer 1; layer 2 is entered with two canonical names or more
DedupLayer1 ==
    /\ dedupPc = "called"
    /\ Len(dedupInput) > 1
    /\ canonical_set' = Layer1(dedupInput).canonical_set
    /\ alias_map' = Layer1(dedupInput).alias_map
    /\ layer1' = Some([canonical_set |-> Layer1(dedupInput).canonical_set,
                       alias_map |-> Layer1(dedupInput).alias_map])
    /\ dedupPc' = IF Len(Layer1(dedupInput).canonical_set) >= 2 THEN "layer2" ELSE "final"
    /\ UNCHANGED <<dedupInput, canonical_lower_map, llm_aliases>>
    /\ UNCHANGED <<execVars, lbVars, pipeVars, engVars, runDir, rankVars, jobVars>>

\* the provider answered with a JSON object
DedupAliasesReplied ==
    /\ dedupPc = "layer2"
    /\ canonical_lower_map' = LowerMap(canonical_set)
    /\ dedupPc' = "pairs"
    /\ UNCHANGED <<dedupInput, canonical_set, alias_map, llm_aliases, layer1>>
    /\ UNCHANGED <<execVars, lbVars, pipeVars, engVars, runDir, rankVars, jobVars>>

\* the provider raised, or its answer is not JSON or not an object
DedupAliasesFails ==
    /\ dedupPc = "layer2"
    /\ dedupPc' = "final"
    /\ UNCHANGED <<dedupInput, canonical_set, alias_map, canonical_lower_map, llm_aliases,
                   layer1>>
    /\ UNCHANGED <<execVars, lbVars, pipeVars, engVars, runDir, rankVars, jobVars>>

\* one turn of `for alias_raw, canon_raw in llm_aliases.items()`
DedupApplyPair(a, c) ==
    /\ dedupPc = "pairs"
    /\ Len(llm_aliases) < MaxPairs
    /\ \A i \in DOMAIN llm_aliases : llm_aliases[i][1] # a
    /\ llm_aliases' = Append(llm_aliases, <<a, c>>)
    /\ canonical_set' = IF PairAccepted(canonical_lower_map, a, c)
                        THEN MergedSet(canonical_set, canonical_lower_map, a)
                        ELSE canonical_set
    /\ alias_map' = IF PairAccepted(canonical_lower_map, a, c)
                    THEN MergedMap(alias_map, canonical_lower_map, a, c)
                    ELSE alias_map
    /\ UNCHANGED <<dedupPc, dedupInput, canonical_lower_map, layer1>>
    /\ UNCHANGED <<execVars, lbVars, pipeVars, engVars, runDir, rankVars, jobVars>>

\* the reply holds no further pair
DedupPairsEnd ==
    /\ dedupPc = "pairs"
    /\ dedupPc' = "final"
    /\ UNCHANGED <<dedupInput, canonical_set, alias_map, canonical_lower_map, llm_aliases,
                   layer1>>
    /\ UNCHANGED <<execVars, lbVars, pipeVars, engVars, runDir, rankVars, jobVars>>

\* the closing loop and the return
DedupReturns ==
    /\ dedupPc = "final"
    /\ alias_map' = FilledMap(alias_map, dedupInput)
    /\ dedupPc' = "returned"
    /\ UNCHANGED <<dedupInput, canonical_set, canonical_lower_map, llm_aliases, layer1>>
    /\ UNCHANGED <<execVars, lbVars, pipeVars, engVars, runDir, rankVars, jobVars>>

DedupInit ==
    /\ dedupPc = "called"
    /\ dedupInput \in NameLists
    /\ canonical_set = <<>>
    /\ alias_map = <<>>
    /\ canonical_lower_map = <<>>
    /\ llm_aliases = <<>>
    /\ layer1 = None
    /\ ExecOff
    /\ LbOff
    /\ PipeOff
    /\ EngOff
    /\ RankOff
    /\ JobOff
    /\ runDir = FALSE

DedupNext ==
    \/ DedupReturnsEarly
    \/ DedupLayer1
    \/ DedupAliasesReplied
    \/ DedupAliasesFails
    \/ \E a \in ReplyNames, c \in ReplyValues : DedupApplyPair(a, c)
    \/ DedupPairsEnd
    \/ DedupReturns

DedupSpec == DedupInit /\ [][DedupNext]_vars

(***************************************************************************)
(* RankPositionAnalyzer.analyze (stages/analysis/analyzers/rank_position.py). *)
(***************************************************************************)
MaxResponses == 2
MaxRanked == 3

\* The ranked lists a response can come with: the pool's names, none twice; the
\* empty list stands for a response without a ranked list under any of its keys.
RankedLists ==
    {l \in UNION {[1..n -> Range(BrandPool)] : n \in 0..MaxRanked} :
        \A i, j \in DOMAIN l : i # j => l[i] # l[j]}

\* A response as analyze sees it: valid (no error, a text) and its ranked list.
Responses == [valid : BOOLEAN, ranked : RankedLists]

ResponseLists == UNION {[1..n -> Responses] : n \in 0..MaxResponses}

\* str.isalnum() on one character of the alphabet used
IsAlnum(c) == c \notin {" ", "-"}

\* _normalize: "".join(ch for ch in name.lower() if ch.isalnum())
Normalize(name) == SelectSeq(Lower(name), IsAlnum)

\* name.lower() == target_lower or _normalize(name) == target_norm
MatchesTarget(name, target) ==
    Lower(name) = Lower(target) \/ Normalize(name) = Normalize(target)

\* found_position: the index of the first match from index i on, 0 for none
RECURSIVE FoundPosition(_, _, _)
FoundPosition(ranked, target, i) ==
    IF i > Len(ranked) THEN 0
    ELSE IF MatchesTarget(ranked[i], target) THEN i
    ELSE FoundPosition(ranked, target, i + 1)

RECURSIVE Gcd(_, _)
Gcd(a, b) == IF b = 0 THEN a ELSE Gcd(b, a % b)

\* The sums of 1/p are kept exactly, as a numerator over the least common
\* multiple of the positions 1..n.
RECURSIVE LcmUpTo(_)
LcmUpTo(n) == IF n <= 1 THEN 1 ELSE (LcmUpTo(n - 1) * n) \div Gcd(LcmUpTo(n - 1), n)

PositionDen == LcmUpTo(MaxRanked)

\* contribution = 1.0 / found_position, over PositionDen
Contribution(p) == PositionDen \div p

\* the decimal places kept by round(weighted_visibility, 4)
RoundScale == 10000

\* round(num / den, 4) in units of 1/10000: Python rounds a tie to the even digit
Round4(num, den) ==
    LET q == (RoundScale * num) \div den
        r == (RoundScale * num) % den
    IN  IF 2 * r > den THEN q + 1
        ELSE IF 2 * r < den THEN q
        ELSE IF q % 2 = 0 THEN q ELSE q + 1

\* A mutant of the count: a response whose list lacks the brand is skipped.
CountedAsRankedOnlyIfFound(p) == IF p > 0 THEN 1 ELSE 0

\* total_ranked_responses += 1, for every response with a ranked list
CountedAsRanked(p) == 1

\* RankPositionScore().weighted_visibility: the score of a brand that no ranked
\* response names
DefaultWeightedVisibility == 0

\* valid = [...]; if not valid: return RankPositionScore()
RankNoValid ==
    /\ rankPc = "called"
    /\ \A i \in DOMAIN rankResults : ~rankResults[i].valid
    /\ weighted_visibility' = Some(DefaultWeightedVisibility)
    /\ rankPc' = "returned"
    /\ UNCHANGED <<rankResults, rankTarget, rankIdx, weighted_sum, total_ranked_responses>>
    /\ UNCHANGED <<execVars, lbVars, pipeVars, engVars, runDir, dedupVars, jobVars>>

RankStart ==
    /\ rankPc = "called"
    /\ \E i \in DOMAIN rankResults : rankResults[i].valid
    /\ rankPc' = "loop"
    /\ UNCHANGED <<rankResults, rankTarget, rankIdx, weighted_sum, total_ranked_responses,
                   weighted_visibility>>
    /\ UNCHANGED <<execVars, lbVars, pipeVars, engVars, runDir, dedupVars, jobVars>>

\* a result that is not valid, or a valid one without a ranked list: `continue`
RankSkipsResponse ==
    /\ rankPc = "loop"
    /\ rankIdx <= Len(rankResults)
    /\ ~rankResults[rankIdx].valid \/ rankResults[rankIdx].ranked = <<>>
    /\ rankIdx' = rankIdx + 1
    /\ UNCHANGED <<rankPc, rankResults, rankTarget, weighted_sum, total_ranked_responses,
                   weighted_visibility>>
    /\ UNCHANGED <<execVars, lbVars, pipeVars, engVars, runDir, dedupVars, jobVars>>

\* a valid response with a ranked list
RankCountsResponse ==
    /\ rankPc = "loop"
    /\ rankIdx <= Len(rankResults)
    /\ rankResults[rankIdx].valid
    /\ rankResults[rankIdx].ranked # <<>>
    /\ LET p == FoundPosition(rankResults[rankIdx].ranked, rankTarget, 1)
       IN  /\ total_ranked_responses' = total_ranked_responses + CountedAsRanked(p)
           /\ weighted_sum' = IF p > 0 THEN weighted_sum + Contribution(p) ELSE weighted_sum
    /\ rankIdx' = rankIdx + 1
    /\ UNCHANGED <<rankPc, rankResults, rankTarget, weighted_visibility>>
    /\ UNCHANGED <<execVars, lbVars, pipeVars, engVars, runDir, dedupVars, jobVars>>

\* weighted_visibility = weighted_sum / total_ranked_responses if that is > 0 else
\* 0.0, returned as round(weighted_visibility, 4)
RankReturns ==
    /\ rankPc = "loop"
    /\ rankIdx > Len(rankResults)
    /\ weighted_visibility' =
          IF total_ranked_responses > 0
          THEN Some(Round4(weighted_sum, PositionDen * total_ranked_responses))
          ELSE Some(0)
    /\ rankPc' = "returned"
    /\ UNCHANGED <<rankResults, rankTarget, rankIdx, weighted_sum, total_ranked_responses>>
    /\ UNCHANGED <<execVars, lbVars, pipeVars, engVars, runDir, dedupVars, jobVars>>

RankInit ==
    /\ rankPc = "called"
    /\ rankResults \in ResponseLists
    /\ rankTarget \in Range(BrandPool)
    /\ rankIdx = 1
    /\ weighted_sum = 0
    /\ total_ranked_responses = 0
    /\ weighted_visibility = None
    /\ ExecOff
    /\ LbOff
    /\ PipeOff
    /\ EngOff
    /\ DedupOff
    /\ JobOff
    /\ runDir = FALSE

RankNext ==
    \/ RankNoValid
    \/ RankStart
    \/ RankSkipsResponse
    \/ RankCountsResponse
    \/ RankReturns

RankSpec == RankInit /\ [][RankNext]_vars

(***************************************************************************)
(* JobStore (app/jobs.py): jobs, their subprocesses, the log-streaming     *)
(* threads and cancel_job.  Every "with self._lock" block is one action.   *)
(***************************************************************************)
MaxJobs == 1
MaxLines == 1
MaxClock == 4

\* the exit codes of a subprocess that ends by itself
ExitCodes == {0, 1}

\* Popen.returncode of a subprocess ended by SIGTERM
SigTermCode == -15

\* the number of log lines a job keeps
LogsKept == 2000

RunIds == {"lb-20260101-000000-abc123"}

\* the lines a subprocess prints, as words
LogLines == {<<"starting">>, <<"run", "lb-20260101-000000-abc123">>}

\* RUN_ID_RE.search(line): the first run id in the line, None without one
Search(line) ==
    LET hits == {i \in DOMAIN line : line[i] \in RunIds}
    IN  IF hits = {} THEN None
        ELSE Some(line[CHOOSE i \in hits : \A k \in hits : i <= k])

JobRecord(job_id, now) ==
    [job_id |-> job_id, status |-> "queued", created_at |-> now, started_at |-> None,
     completed_at |-> None, pid |-> None, return_code |-> None, run_id |-> None,
     logs |-> <<>>]

NoChild == [state |-> "none", rc |-> None, terminated |-> FALSE, pipe |-> <<>>, written |-> 0]

\* job.logs after the append of a line, cut to the most recent LogsKept lines
KeptLogs(logs, line) ==
    LET all == Append(logs, line)
    IN  IF Len(all) > LogsKept THEN SubSeq(all, Len(all) - LogsKept + 1, Len(all)) ELSE all

\* the status the streaming thread leaves after the exit of the subprocess
StatusAfterExitUnguarded(status, rc) == IF rc = 0 THEN "completed" ELSE "failed"
StatusAfterExit(status, rc) ==
    IF status # "cancelled" THEN (IF rc = 0 THEN "completed" ELSE "failed") ELSE status

JobFrame == UNCHANGED <<execVars, lbVars, pipeVars, engVars, runDir, dedupVars, rankVars>>

\* create_job up to the insertion of the record
CreateJob ==
    /\ Len(jobs) < MaxJobs
    /\ clock < MaxClock
    /\ jobs' = Append(jobs, JobRecord(Len(jobs) + 1, clock))
    /\ child' = Append(child, NoChild)
    /\ jobPc' = Append(jobPc, "created")
    /\ clock' = clock + 1
    /\ UNCHANGED <<procs, cancelReturn>>
    /\ JobFrame

\* _start: the first locked block
StartRunning(j) ==
    /\ jobPc[j] = "created"
    /\ clock < MaxClock
    /\ jobs' = [jobs EXCEPT ![j].status = "running", ![j].started_at = Some(clock)]
    /\ clock' = clock + 1
    /\ jobPc' = [jobPc EXCEPT ![j] = "starting"]
    /\ UNCHANGED <<procs, child, cancelReturn>>
    /\ JobFrame

\* _start: subprocess.Popen
StartSpawns(j) ==
    /\ jobPc[j] = "starting"
    /\ child' = [child EXCEPT ![j].state = "running"]
    /\ jobPc' = [jobPc EXCEPT ![j] = "spawned"]
    /\ UNCHANGED <<jobs, procs, clock, cancelReturn>>
    /\ JobFrame

\* _start: the second locked block and the start of the streaming thread
StartRegisters(j) ==
    /\ jobPc[j] = "spawned"
    /\ jobs' = [jobs EXCEPT ![j].pid = Some(j)]
    /\ procs' = procs \cup {j}
    /\ jobPc' = [jobPc EXCEPT ![j] = "streaming"]
    /\ UNCHANGED <<child, clock, cancelReturn>>
    /\ JobFrame

\* the subprocess prints a line
ChildWrites(j) ==
    /\ child[j].state = "running"
    /\ child[j].written < MaxLines
    /\ \E line \in LogLines :
        child' = [child EXCEPT ![j].pipe = Append(@, line), ![j].written = @ + 1]
    /\ UNCHANGED <<jobs, procs, jobPc, clock, cancelReturn>>
    /\ JobFrame

\* the subprocess ends, by itself or by the signal of terminate()
ChildExits(j) ==
    /\ child[j].state = "running"
    /\ \E rc \in (IF child[j].terminated THEN ExitCodes \cup {SigTermCode} ELSE ExitCodes) :
        child' = [child EXCEPT ![j].state = "exited", ![j].rc = Some(rc)]
    /\ UNCHANGED <<jobs, procs, jobPc, clock, cancelReturn>>
    /\ JobFrame

\* _stream_job: one round of the loop over proc.stdout
StreamLine(j) ==
    /\ jobPc[j] = "streaming"
    /\ child[j].pipe # <<>>
    /\ LET line == Head(child[j].pipe)
           match == Search(line)
       IN  jobs' = [jobs EXCEPT ![j].logs = KeptLogs(@, line),
                                ![j].run_id = IF match # None /\ @ = None THEN match ELSE @]
    /\ child' = [child EXCEPT ![j].pipe = Tail(@)]
    /\ UNCHANGED <<procs, jobPc, clock, cancelReturn>>
    /\ JobFrame

\* _stream_job: the loop ends at the end of the output and proc.wait() returns
StreamWaits(j) ==
    /\ jobPc[j] = "streaming"
    /\ child[j].pipe = <<>>
    /\ child[j].state = "exited"
    /\ jobPc' = [jobPc EXCEPT ![j] = "waited"]
    /\ UNCHANGED <<jobs, procs, child, clock, cancelReturn>>
    /\ JobFrame

\* _stream_job: the last locked block
StreamRecords(j) ==
    /\ jobPc[j] = "waited"
    /\ clock < MaxClock
    /\ LET rc == child[j].rc[1]
       IN  jobs' = [jobs EXCEPT ![j].return_code = Some(rc),
                                ![j].status = StatusAfterExit(@, rc),
                                ![j].completed_at = Some(clock)]
    /\ clock' = clock + 1
    /\ procs' = procs \ {j}
    /\ jobPc' = [jobPc EXCEPT ![j] = "recorded"]
    /\ UNCHANGED <<child, cancelReturn>>
    /\ JobFrame

\* cancel_job(job_id), of a job of the store or of an unknown id
CancelJob(job_id) ==
    /\ jobPc # <<>>
    /\ IF job_id \notin procs \/ job_id \notin DOMAIN jobs
       THEN /\ cancelReturn' = Some(<<job_id, FALSE>>)
            /\ UNCHANGED <<jobs, procs, child, jobPc, clock>>
       ELSE /\ clock < MaxClock
            /\ child' = [child EXCEPT ![job_id].terminated = (@ \/ child[job_id].state = "running")]
            /\ jobs' = [jobs EXCEPT ![job_id].status = "cancelled",
                                    ![job_id].completed_at = Some(clock)]
            /\ clock' = clock + 1
            /\ cancelReturn' = Some(<<job_id, TRUE>>)
            /\ UNCHANGED <<procs, jobPc>>
    /\ JobFrame

JobInit ==
    /\ JobOff
    /\ DedupOff
    /\ RankOff
    /\ ExecOff
    /\ LbOff
    /\ PipeOff
    /\ EngOff
    /\ runDir = FALSE

JobNext ==
    \/ CreateJob
    \/ \E j \in DOMAIN jobs : StartRunning(j)
    \/ \E j \in DOMAIN jobs : StartSpawns(j)
    \/ \E j \in DOMAIN jobs : StartRegisters(j)
    \/ \E j \in DOMAIN jobs : ChildWrites(j)
    \/ \E j \in DOMAIN jobs : ChildExits(j)
    \/ \E j \in DOMAIN jobs : StreamLine(j)
    \/ \E j \in DOMAIN jobs : StreamWaits(j)
    \/ \E j \in DOMAIN jobs : StreamRecords(j)
    \/ \E job_id \in 1..MaxJobs : CancelJob(job_id)

JobSpec == JobInit /\ [][JobNext]_vars

(***************************************************************************)
(* Claims about ExecutionStage.execute, checked under ExecSpec.            *)
(***************************************************************************)
TaskKey(t) == <<t.query, t.provider, t.iteration>>
ResultKey(r) == <<r.query_id, r.provider, r.iteration>>
ResultsOf(key) == {j \in DOMAIN results : ResultKey(results[j]) = key}
Failures == {"raise", "timeout"}
Successes == {"ok", "empty"}

\* C1: when execute returns, results holds exactly N*M*K QueryResults, exactly one
\* for each (query_id, provider, iteration) triple, for every concurrency >= 1 and
\* every interleaving of the tasks.
C1_ExactlyOneResultPerTriple ==
    execPc = "returned" =>
        /\ Len(results) = Len(querySet[1]) * Len(providers) * iterations
        /\ \A q \in Range(querySet[1]), p \in Range(providers), k \in 1..iterations :
              Cardinality(ResultsOf(<<q, p, k>>)) = 1

C1_Witness ==
    /\ execPc = "returned"
    /\ Len(results) = MaxTasks
    /\ concurrency > 1
    /\ concurrency < Len(results)
    /\ \E i, j \in DOMAIN outcome : outcome[i] \in Failures /\ outcome[j] \in Successes
    \* results arrived out of creation order
    /\ \E i \in DOMAIN results : ResultKey(results[i]) # TaskKey(tasks[i])

\* C2: a task whose provider call times out or raises produces a QueryResult with
\* error set and an empty response; no other task is turned into a failure or
\* dropped because of it (every task whose call ended has its own result, a
\* successful call a result without error), the tasks that are left can still
\* run, and execute does not raise.
C2_FailureIsolated ==
    /\ \A i \in DOMAIN outcome :
          outcome[i] # "none" =>
              /\ Cardinality(ResultsOf(TaskKey(tasks[i]))) = 1
              /\ \A j \in ResultsOf(TaskKey(tasks[i])) :
                    /\ outcome[i] \in Failures =>
                          results[j].error # NoError /\ results[j].response = ""
                    /\ outcome[i] \in Successes => results[j].error = NoError
    /\ (\E i \in DOMAIN outcome : outcome[i] \in Failures) =>
          /\ execPc \in {"gather", "returned"}
          /\ \A i \in DOMAIN taskPc : taskPc[i] \in {"waiting", "inflight", "done"}
          /\ execPc = "gather" =>
                \/ \A i \in DOMAIN taskPc : taskPc[i] = "done"
                \/ InFlight # {}
                \/ \E i \in Waiting : CanAcquire(i)
          /\ execPc = "returned" => \A i \in DOMAIN outcome : outcome[i] # "none"

C2_Witness ==
    /\ execPc = "returned"
    /\ \E i, j, k \in DOMAIN outcome :
          /\ i < j /\ j < k
          /\ outcome[i] = "timeout"
          /\ outcome[j] = "raise"
          /\ outcome[k] = "ok"

\* C3: at no point are more than `concurrency` provider.query calls in flight.
C3_AtMostConcurrencyInFlight == Cardinality(InFlight) <= concurrency

C3_Witness ==
    /\ execPc = "gather"
    /\ Cardinality(InFlight) = concurrency
    /\ Waiting # {}
    /\ \E i \in DOMAIN taskPc : taskPc[i] = "done"

HungCall(i) == provMode[tasks[i].provider] = "hung"
HealthyTask(i) == provMode[tasks[i].provider] = "ok"

\* C4 as stated: while calls to a hung provider wait for their timeout, a pending
\* task addressed to a healthy provider is not kept from starting its call: it
\* never has to wait for a hung call to time out.
C4_HungNeverBlocksHealthy ==
    \A i \in Waiting :
        (HealthyTask(i) /\ InFlight # {} /\ \A j \in InFlight : HungCall(j))
            => semValue > 0

\* C4 as amended: a hung call holds back a pending task only through the shared
\* semaphore. The semaphore value is concurrency minus the calls in flight, so
\* whenever fewer than `concurrency` calls are in flight the next pending task in
\* creation order can start at once, hung calls in flight or not; and a hung call
\* turns no other task into a failure.
C4_BlockedOnlyByFullSemaphore ==
    execPc = "gather" =>
        /\ semValue = concurrency - Cardinality(InFlight)
        /\ \A i \in Waiting :
              ((\A j \in Waiting : i <= j) /\ Cardinality(InFlight) < concurrency)
                  => ENABLED TaskAcquire(i)
        /\ \A i \in DOMAIN outcome :
              outcome[i] \in Successes =>
                  \A j \in ResultsOf(TaskKey(tasks[i])) : results[j].error = NoError

C4_Witness ==
    /\ execPc = "gather"
    /\ semValue > 0
    /\ \E i \in Waiting, j \in InFlight, k \in DOMAIN outcome :
          /\ HealthyTask(i)
          /\ HungCall(j)
          /\ outcome[k] = "timeout"
          /\ ENABLED TaskAcquire(i)

(***************************************************************************)
(* Claims about LeaderboardEngine, under LbSpec.                           *)
(***************************************************************************)
StoredResultsAtStart == resultsAtStart # NoFile /\ Content(resultsAtStart).results # <<>>

\* C5: when a run is resumed and results/results.json already holds at least one
\* result, ExecutionStage.execute is not entered, no execution-provider call is
\* made, results.json is left as it was, and the execution run the later phases
\* work on is the stored one.
C5_ResumeSkipsExecution ==
    (lbPc \notin {"off", "dead"} /\ resume /\ StoredResultsAtStart) =>
        /\ execPc = "idle"
        /\ calls = <<>>
        /\ tasks = <<>>
        /\ fResults = resultsAtStart
        /\ executionRun \in {None, Some(Content(resultsAtStart))}
        /\ lbPc \in {"p4", "p5", "p5run"} => executionRun = Some(Content(resultsAtStart))

C5_Witness ==
    /\ resume
    /\ StoredResultsAtStart
    /\ lbPc = "returned"
    /\ stopAfter = "none"
    /\ executionRun = Some(Content(resultsAtStart))
    /\ lbResult # None
    /\ lbResult[1].entries # <<>>

NotCachedAtScan == {b \in Range(brands[1]) : SlugOf(b) \notin cachedAtScan}
EntriesOf(b) == {i \in DOMAIN entries : entries[i].brand = b}

\* C6: on a resumed run phase 5 analyses exactly the brands of the brand list
\* whose analysis file did not exist when phase 5 looked: a brand whose file
\* existed gets its entry from that file and is not analysed, every other brand
\* is analysed exactly once and its file written, and the final entries hold
\* exactly one entry per brand of the brand list.
C6_ResumedPhase5 ==
    (resume /\ lbPc \in {"p5run", "finalize", "returned"} /\ brands # None) =>
        /\ Range(toAnalyze) = NotCachedAtScan
        /\ Range(analysed) \subseteq NotCachedAtScan
        /\ \A i, j \in DOMAIN analysed : analysed[i] = analysed[j] => i = j
        /\ \A b \in Range(analysed) : fAnalysis[SlugOf(b)] # NoFile
        /\ \A b \in Range(brands[1]) \ NotCachedAtScan :
              /\ Cardinality(EntriesOf(b)) = 1
              /\ \A i \in EntriesOf(b) :
                    entries[i].overall_score =
                        Content(fAnalysis[SlugOf(b)]).overall_score
        /\ lbPc \in {"finalize", "returned"} =>
              /\ Range(analysed) = NotCachedAtScan
              /\ Len(entries) = Len(brands[1])
              /\ \A b \in Range(brands[1]) : Cardinality(EntriesOf(b)) = 1

C6_Witness ==
    /\ resume
    /\ lbPc = "returned"
    /\ brands # None
    /\ analysed # <<>>
    /\ Len(analysed) < Len(brands[1])
    /\ Len(entries) = Len(brands[1])

\* What a deterministic provider answers to a task.
ExpectedResult(t) ==
    CASE provMode[t.provider] = "ok" -> SuccessResult(t, ResponseText)
      [] provMode[t.provider] = "blank" -> SuccessResult(t, "")
      [] provMode[t.provider] = "down" -> FailureResult(t, ProviderMessage)
      [] OTHER -> FailureResult(t, TimeoutMessage)

\* The values an uninterrupted complete run of this world ends with.
ExpectedResults ==
    {ExpectedResult(t) : t \in Range(BuildTasks(QueryIds(worldCount), providers, iterations))}
ExpectedEntries == {[brand |-> b, overall_score |-> ScoreOf(b)] : b \in Range(worldBrands)}
EntriesSet == {[brand |-> entries[i].brand, overall_score |-> entries[i].overall_score] :
                 i \in DOMAIN entries}

SameAsUninterrupted ==
    /\ categoryProfile = Some(CategoryContext)
    /\ querySet = Some(QueryIds(worldCount))
    /\ executionRun # None
    /\ Range(executionRun[1].results) = ExpectedResults
    /\ brands = Some(worldBrands)
    /\ extracted = Some(Extraction(worldBrands, TRUE))
    /\ EntriesSet = ExpectedEntries

CompleteRunReturned == lbPc = "returned" /\ ~StopsAfterQueries(stopAfter)

\* C7: with providers that answer the same way every time, a run that was
\* interrupted and resumed, and then returns from a complete pass, holds the same
\* category context, queries, results, brand list, extracted claims, ranked lists
\* and set of leaderboard entries as an uninterrupted run.
C7_ResumedEqualsUninterrupted == (CompleteRunReturned /\ ~flaky) => SameAsUninterrupted

\* Two brands of the brand list share one analysis file.
SlugCollision ==
    \E i, j \in DOMAIN worldBrands : i # j /\ SlugOf(worldBrands[i]) = SlugOf(worldBrands[j])

\* C7 holds of every run whose brands have distinct slugs.
C7_HoldsWithoutSlugCollision ==
    (CompleteRunReturned /\ ~flaky /\ ~SlugCollision) => SameAsUninterrupted

AnalysisFiles == {sl \in DOMAIN fAnalysis : fAnalysis[sl] # NoFile}

\* C8: the phases run in the fixed order. A phase calls a provider or writes its
\* checkpoint only when the checkpoint of the phase before it is on disk and is
\* what the process holds in memory, so the checkpoints on disk always form a
\* prefix of category, queries, results, extraction, per-brand analyses, leaderboard.
C8_PhasesInOrder ==
    /\ fQueries # NoFile => fCategory # NoFile
    /\ fResults # NoFile => fQueries # NoFile
    /\ fExtraction # NoFile => fResults # NoFile
    /\ AnalysisFiles # {} => fExtraction # NoFile
    /\ fLeaderboard # NoFile =>
          \A b \in Range(Content(fExtraction).brands) : SlugOf(b) \in AnalysisFiles
    /\ \A i, j \in DOMAIN procCalls :
          (i < j) => <<procCalls[i], procCalls[j]>> \in
                        {<<"category", "queries">>, <<"category", "extraction">>,
                         <<"queries", "extraction">>}
    /\ lbPc \in {"p2", "p2done", "p3exec", "p4", "p5", "p5run"} =>
          fCategory # NoFile /\ categoryProfile = Some(Content(fCategory))
    /\ lbPc \in {"p2done", "p3exec", "p4", "p5", "p5run"} =>
          fQueries # NoFile /\ querySet = Some(Content(fQueries).queries)
    /\ lbPc \in {"p4", "p5", "p5run"} =>
          fResults # NoFile /\ executionRun = Some(Content(fResults))
    /\ lbPc \in {"p5", "p5run"} =>
          fExtraction # NoFile /\ brands = Some(Content(fExtraction).brands)
    /\ execPc # "idle" => lbPc \in {"off", "p3exec"}
    /\ (\E i \in DOMAIN brandPc : brandPc[i] # "waiting") => lbPc \in {"p5run", "finalize", "returned"}

C8_Witness ==
    /\ lbPc = "dead"
    /\ fExtraction # NoFile
    /\ AnalysisFiles # {}
    /\ \E b \in Range(Content(fExtraction).brands) : SlugOf(b) \notin AnalysisFiles
    /\ fLeaderboard = NoFile

\* C9: an invocation with stop_after = "query-generation" never enters execution,
\* extraction, per-brand analysis or ranking; when it returns, queries.json is on
\* disk with its queries and the result has no brands and no entries.
C9_StopAfterQueryGeneration ==
    (lbPc \notin {"off", "dead"} /\ stopAfter = "query-generation") =>
        /\ lbPc \notin {"p3exec", "p4", "p5", "p5run"}
        /\ execPc = "idle"
        /\ calls = <<>>
        /\ \A i \in DOMAIN procCalls : procCalls[i] # "extraction"
        /\ toAnalyze = <<>>
        /\ analysed = <<>>
        /\ entries = <<>>
        /\ lbResult \in {None, Some(LeaderboardResult(<<>>, <<>>))}
        /\ lbPc \in {"finalize", "returned"} =>
              /\ lbResult = Some(LeaderboardResult(<<>>, <<>>))
              /\ fQueries # NoFile
              /\ Content(fQueries).queries # <<>>
              /\ querySet = Some(Content(fQueries).queries)

C9_Witness ==
    /\ lbPc = "returned"
    /\ stopAfter = "query-generation"
    /\ "queries" \in Range(procCalls)
    /\ lbResult = Some(LeaderboardResult(<<>>, <<>>))
    /\ fMeta = File(Metadata("stopped-after-query-generation", <<>>))

(***************************************************************************)
(* Claims about Pipeline.run, under PipeSpec.                              *)
(***************************************************************************)
StageFailed == pipePc = "raised" /\ raised # None /\ raised[1].by = "stage"

\* C10: when a stage's execute raises inside Pipeline.run, ctx.status is "failed",
\* ctx.errors is what it was with exactly one entry "[<stage name>] <message>"
\* appended, the exception that leaves run is the stage's, and the stages
\* executed are those up to the failing one and no later one.
C10_StageFailure ==
    StageFailed =>
        /\ ctxStatus = "failed"
        /\ ctxErrors =
              Append(errorsAtStart, <<"[", raised[1].stage, "] ", raised[1].message>>)
        /\ raised[1].stage = stages[stageIdx]
        /\ executed = SubSeq(stages, 1, stageIdx)
        /\ ~ENABLED PipeNext

C10_Witness ==
    /\ StageFailed
    /\ errorsAtStart # <<>>
    /\ Len(executed) >= 2
    /\ Len(executed) < Len(stages)
    /\ raised[1].message = "boom"

StopAfterStage == stopArg # None /\ stopArg[1] \in Range(stages)
RunEnded == pipePc \in {"returned", "raised"}
StageOrHookRaised == raised # None /\ raised[1].by \in {"stage", "hook"}

\* C11: a call run(ctx, stop_after=S) with S a registered stage ends, unless a
\* stage or hook up to S raised, by returning the context right after stage S
\* (and its hook): S is the last stage executed, no exception leaves run, the
\* status is not "failed" and nothing was appended to errors.
C11_StopAfterReturns ==
    (StopAfterStage /\ RunEnded /\ ~StageOrHookRaised) =>
        /\ pipePc = "returned"
        /\ raised = None
        /\ executed # <<>>
        /\ executed[Len(executed)] = stopArg[1]
        /\ ctxStatus # "failed"
        /\ ctxErrors = errorsAtStart

StatusMoves == {<<"pending", "running">>, <<"running", "completed">>, <<"running", "failed">>}

C12_Shape ==
    /\ ctxStatus \in {"pending", "running", "completed", "failed"}
    /\ executed = SubSeq(stages, 1, Len(executed))
    /\ pipePc = "hook" =>
          /\ Len(executed) = stageIdx
          /\ stages[stageIdx] \in hooks
    /\ ctxStatus = "completed" => executed = stages

C12_Step ==
    /\ ctxStatus' # ctxStatus => <<ctxStatus, ctxStatus'>> \in StatusMoves
    /\ stages' = stages
    /\ executed' # executed =>
          /\ Len(executed) < Len(stages)
          /\ executed' = Append(executed, stages[Len(executed) + 1])
    /\ pipePc' = "hook" => executed' # executed
    /\ pipePc = "hook" => executed' = executed

\* C12: during one Pipeline.run the status only moves pending -> running ->
\* completed or failed; the stages executed are always a prefix of the registered
\* stages in registration order, one more at a time; a hook runs only as the
\* step right after its own stage and executes no stage; "completed" is set only
\* when every registered stage has executed.
C12_StatusAndOrder == [](C12_Shape) /\ [][C12_Step]_vars

C12_Witness ==
    /\ pipePc = "returned"
    /\ ctxStatus = "completed"
    /\ executed = StageNames
    /\ hooks = HookableStages

(***************************************************************************)
(* Claims about VoyageGeoEngine.run, under EngSpec.                        *)
(***************************************************************************)
StageIndex(name) == CHOOSE i \in DOMAIN stages : stages[i] = name

\* The stage of this run whose execute raises: it is registered and the run is
\* not asked to stop before it.
FailingStage ==
    {f \in stageFails : stopAfter = "none" \/ StageIndex(f) <= StageIndex(stopAfter)}

\* C13: a VoyageGeoEngine.run in which a stage raises ends with the exception of
\* that stage raised to the caller and with metadata.json holding status "failed"
\* and an errors list that contains the stage's "[stage] message" entry; and
\* metadata "completed" is there only when every stage has executed.
C13_StageFailureInMetadata ==
    /\ (engPc \in {"returned", "raised"} /\ FailingStage # {}) =>
          /\ engPc = "raised"
          /\ raised # None
          /\ raised[1].by = "stage"
          /\ fMeta # NoFile
          /\ Content(fMeta).status = "failed"
          /\ \E f \in FailingStage, i \in DOMAIN Content(fMeta).errors :
                \E msg \in Messages : Content(fMeta).errors[i] = ErrorEntry(f, msg)
    /\ (fMeta # NoFile /\ Content(fMeta).status = "completed") => executed = stages

(***************************************************************************)
(* Claims about the commands, under CliSpec.                               *)
(***************************************************************************)
ResumeOfMissingRun == resume /\ ~runDir

AnalysisPath(b) == <<"analysis", SlugOf(b)>>

\* analysis/extraction-checkpoint.json and analysis/leaderboard.json
ExtractionCheckpointPath ==
    <<"analysis", <<"e", "x", "t", "r", "a", "c", "t", "i", "o", "n", "-",
                    "c", "h", "e", "c", "k", "p", "o", "i", "n", "t">> >>
LeaderboardPath == <<"analysis", <<"l", "e", "a", "d", "e", "r", "b", "o", "a", "r", "d">> >>

\* C15: any two distinct brands of the canonical brand list write two different
\* analysis files, and no brand's analysis file is the extraction checkpoint or
\* the leaderboard file.
C15_DistinctBrandsDistinctFiles ==
    brands # None =>
        /\ \A i, j \in DOMAIN brands[1] :
              (brands[1][i] # brands[1][j]) =>
                  AnalysisPath(brands[1][i]) # AnalysisPath(brands[1][j])
        /\ \A i \in DOMAIN brands[1] :
              AnalysisPath(brands[1][i]) \notin {ExtractionCheckpointPath, LeaderboardPath}

(***************************************************************************)
(* Claims about the resume of phase 2, under LbSpec.                       *)
(***************************************************************************)
\* queries.json exists and holds at least one query
QueriesCheckpointUsable(f) == IF f = NoFile THEN FALSE ELSE Content(f).queries # <<>>

\* Step 2 of a resumed run is taken (the process is not killed in it).
ResumedQueryStep == resume /\ lbPc = "p2" /\ lbPc' \notin {"p2", "dead"}

\* C16: on a resumed run, step 2 skips query generation exactly when queries.json
\* exists and holds at least one query; otherwise it asks for queries again and
\* rewrites queries.json.
C16_QueryResumeStep ==
    ResumedQueryStep =>
        IF QueriesCheckpointUsable(fQueries)
        THEN procCalls' = procCalls /\ fQueries' = fQueries
        ELSE procCalls' = Append(procCalls, "queries")
C16_QueryGenerationSkippedIffNonEmpty == [][C16_QueryResumeStep]_vars

(***************************************************************************)
(* Claims about the status of an execution run, under ExecSpec.            *)
(***************************************************************************)
\* C17: when execute returns, for every task set, an empty one included: status is
\* "completed" iff there are no failures and at least one success, "failed" iff
\* there is no success, "partial" otherwise; and completed_queries +
\* failed_queries = len(results).
C17_StatusFromCounts ==
    execPc = "returned" =>
        /\ (execStatus = "completed") <=> (failed = 0 /\ completed >= 1)
        /\ (execStatus = "failed") <=> (completed = 0)
        /\ (execStatus = "partial") <=> (failed > 0 /\ completed > 0)
        /\ completed + failed = Len(results)
        /\ fResults # NoFile
        /\ Content(fResults).status = execStatus

(***************************************************************************)
(* Claims about the termination of ExecutionStage.execute, under           *)
(* ExecFairSpec.                                                           *)
(***************************************************************************)
AllTasksDone ==
    /\ execPc = "returned"
    /\ \A i \in DOMAIN taskPc : taskPc[i] = "done"
    /\ Len(results) = Len(tasks)
    /\ semValue = concurrency

C19_Shape ==
    \A i \in DOMAIN calls :
        /\ calls[i] <= 1
        /\ (calls[i] = 1) <=> (taskPc[i] \in {"inflight", "done"})
        /\ execPc = "returned" => calls[i] = 1

\* a task that ended, with a result or a failure, is not started again
C19_Step ==
    \A i \in DOMAIN taskPc :
        taskPc[i] = "done" => (taskPc'[i] = "done" /\ calls'[i] = calls[i])

\* C19: each (query, provider, iteration) task is attempted exactly once: one
\* provider.query call per task, and a task that failed or timed out is never
\* retried.
C19_AttemptedExactlyOnce == [](C19_Shape) /\ [][C19_Step]_vars

C19_Witness ==
    /\ execPc = "returned"
    /\ Len(tasks) >= 2
    /\ \E i \in DOMAIN tasks : outcome[i] = "raise" /\ calls[i] = 1
    /\ \E i \in DOMAIN tasks : outcome[i] = "timeout" /\ calls[i] = 1

(***************************************************************************)
(* Claims about phase 5's fan-out, under LbFairSpec.                       *)
(***************************************************************************)
BrandsInFlight == {i \in DOMAIN brandPc : brandPc[i] = "inflight"}

Min(a, b) == IF a < b THEN a ELSE b

\* in flight: at most min(64, concurrency), and the free slots make up the rest;
\* the bound computed for any other setting c >= 1 is min(64, c) as well
C20_Bound ==
    /\ Cardinality(BrandsInFlight) <= Min(64, concurrency)
    /\ lbPc = "p5run" =>
          /\ brandSem + Cardinality(BrandsInFlight) = Min(64, concurrency)
          /\ \A c \in 1..(AnalysisWorkersCap + 2) : AnalysisWorkers(c) = Min(64, c)

AllBrandsAnalysed ==
    \A i \in DOMAIN toAnalyze :
        /\ brandPc[i] = "done"
        /\ toAnalyze[i] \in Range(analysed)
        /\ fAnalysis[SlugOf(toAnalyze[i])] # NoFile

\* C20: for concurrency >= 1, never more than min(64, concurrency) brand analyses
\* are in progress at once, and every brand of the to-analyze set is eventually
\* analysed (unless the process is killed first).
C20_BoundedAndAllAnalysed ==
    /\ [](C20_Bound)
    /\ (lbPc = "p5run") ~> (AllBrandsAnalysed \/ lbPc = "dead")

C20_Witness ==
    /\ lbPc = "p5run"
    /\ concurrency = 1
    /\ Len(toAnalyze) >= 2
    /\ AllBrandsAnalysed

(***************************************************************************)
(* Claims about the ranking, under LbSpec.                                 *)
(***************************************************************************)
\* Step 6 is taken.
RankingStep == lbPc = "p5run" /\ lbPc' = "finalize"

\* after is before reordered by an order-preserving-on-ties permutation, with ranks
StableReordering(before, after) ==
    /\ Len(after) = Len(before)
    /\ \E perm \in [DOMAIN before -> DOMAIN before] :
          /\ \A i, j \in DOMAIN before : i # j => perm[i] # perm[j]
          /\ \A i \in DOMAIN after : after[i] = [before[perm[i]] EXCEPT !.rank = i]
          /\ \A i, j \in DOMAIN after :
                (i < j /\ after[i].overall_score = after[j].overall_score)
                    => perm[i] < perm[j]

C21_Step ==
    RankingStep =>
        /\ \A i, j \in DOMAIN entries' :
              i < j => entries'[i].overall_score >= entries'[j].overall_score
        /\ \A i \in DOMAIN entries' : entries'[i].rank = i
        /\ StableReordering(entries, entries')
        /\ fLeaderboard' # NoFile
        /\ Content(fLeaderboard').entries = entries'

\* C21: after phase 6 the entries are in non-increasing overall_score order, the
\* entry at (0-based) index i has rank i+1, and entries of equal score keep the
\* order they had before the sort.
C21_RankedStableDescending == [][C21_Step]_vars

C21_Witness ==
    /\ lbPc = "finalize"
    /\ Len(entries) = 2
    /\ entries[1].overall_score = entries[2].overall_score
    /\ entries[1].brand = BrandPool[3]
    /\ entries[2].brand = BrandPool[2]
    /\ entries[1].rank = 1 /\ entries[2].rank = 2

(***************************************************************************)
(* Claims about deduplicate_brands, under DedupSpec.                       *)
(***************************************************************************)
\* n names a member of the canonical list cs (the code compares lowercased names)
MemberOf(n, cs) == \E i \in DOMAIN cs : Lower(cs[i]) = Lower(n)

\* A pair of the reply is applied in this step; it is the last of llm_aliases'.
PairApplied == Len(llm_aliases') = Len(llm_aliases) + 1
AppliedAlias == llm_aliases'[Len(llm_aliases')][1]
AppliedCanonical == llm_aliases'[Len(llm_aliases')][2]

\* both names are strings, different, and in the canonical list as it is now
ValidNow ==
    /\ AppliedCanonical # None
    /\ Lower(AppliedAlias) # Lower(AppliedCanonical[1])
    /\ MemberOf(AppliedAlias, canonical_set)
    /\ MemberOf(AppliedCanonical[1], canonical_set)

C22_Step ==
    (PairApplied /\ ~ValidNow) => (canonical_set' = canonical_set /\ alias_map' = alias_map)

\* C22: in layer 2 a pair is merged only if both its names are members of the
\* canonical list when the pair is applied; every other pair changes neither the
\* canonical list nor the alias map.
C22_OnlyValidPairsMerge == [][C22_Step]_vars

\* C23: deduplicate_brands returns an alias map with an entry for every original
\* name, every value of which is a member of the returned canonical list, and a
\* canonical list that is non-empty when the input is.
C23_AliasMapIntoCanonicalList ==
    dedupPc = "returned" =>
        /\ \A i \in DOMAIN dedupInput : dedupInput[i] \in DOMAIN alias_map
        /\ \A n \in DOMAIN alias_map : alias_map[n] \in Range(canonical_set)
        /\ dedupInput # <<>> => canonical_set # <<>>

\* The names that layer 1 gave the canonical name c.
Layer1Group(c) == {n \in DOMAIN layer1[1].alias_map : layer1[1].alias_map[n] = c}

\* C24: after layer 1 any two input names of which one is a case-insensitive
\* substring of the other have the same canonical name, and each group's canonical
\* is a longest name of the group.
C24_Layer1GroupsSubstrings ==
    layer1 # None =>
        /\ \A i, j \in DOMAIN dedupInput :
              Related(dedupInput[i], dedupInput[j]) =>
                  layer1[1].alias_map[dedupInput[i]] = layer1[1].alias_map[dedupInput[j]]
        /\ \A i \in DOMAIN layer1[1].canonical_set :
              \A n \in Layer1Group(layer1[1].canonical_set[i]) :
                  Len(n) <= Len(layer1[1].canonical_set[i])

(***************************************************************************)
(* Claims about RankPositionAnalyzer.analyze, under RankSpec.              *)
(***************************************************************************)
\* the valid responses that have a non-empty ranked list
RankedResponses ==
    {i \in DOMAIN rankResults : rankResults[i].valid /\ rankResults[i].ranked # <<>>}

\* 1/p of response i over PositionDen, 0 when the brand is not in its list
ContributionOf(i) ==
    IF FoundPosition(rankResults[i].ranked, rankTarget, 1) = 0 THEN 0
    ELSE PositionDen \div FoundPosition(rankResults[i].ranked, rankTarget, 1)

RECURSIVE SumOver(_)
SumOver(S) ==
    IF S = {} THEN 0
    ELSE LET i == CHOOSE x \in S : TRUE IN ContributionOf(i) + SumOver(S \ {i})

Abs(x) == IF x < 0 THEN -x ELSE x

\* the divisor that turns the numerator SumOver(RankedResponses) into the average
AverageDen == PositionDen * Cardinality(RankedResponses)

\* C25 as stated: weighted_visibility equals the sum of 1/p over the ranked
\* responses divided by their number.
C25_WeightedVisibilityExact ==
    (rankPc = "returned" /\ RankedResponses # {}) =>
        weighted_visibility[1] * AverageDen = RoundScale * SumOver(RankedResponses)

\* C25, amended: weighted_visibility is that quotient rounded to four decimal
\* places (it differs from it by at most 0.00005), and 0 without any ranked response.
C25_WeightedVisibilityRounded ==
    rankPc = "returned" =>
        IF RankedResponses = {} THEN weighted_visibility = Some(0)
        ELSE 2 * Abs(weighted_visibility[1] * AverageDen
                       - RoundScale * SumOver(RankedResponses)) <= AverageDen

\* the brand at position 1 in one ranked response and at position 3 in a second
C25_Witness ==
    /\ rankPc = "returned"
    /\ Cardinality(RankedResponses) = 2
    /\ \E i, j \in RankedResponses :
          /\ FoundPosition(rankResults[i].ranked, rankTarget, 1) = 1
          /\ FoundPosition(rankResults[j].ranked, rankTarget, 1) = 3
    /\ weighted_visibility = Some(6667)

(***************************************************************************)
(* Claims about a run that ends by raising, under PipeSpec.                *)
(***************************************************************************)
\* C26: whenever Pipeline.run ends by raising, from a stage or from a post-stage
\* hook, ctx.status is "failed" and ctx.errors has gained an entry; the context is
\* not left with status "running".
C26_RaiseMarksFailed ==
    (pipePc = "raised" /\ StageOrHookRaised) =>
        /\ ctxStatus = "failed"
        /\ ctxStatus # "running"
        /\ Len(ctxErrors) > Len(errorsAtStart)

(***************************************************************************)
(* Claims about resuming a run whose stored results all failed, under      *)
(* LbSpec.                                                                 *)
(***************************************************************************)
\* results/results.json held at least one result, and only failures, when this
\* invocation began
AllStoredFailed ==
    /\ StoredResultsAtStart
    /\ \A i \in DOMAIN Content(resultsAtStart).results :
          Content(resultsAtStart).results[i].error # NoError

WentThroughAllPhases ==
    /\ lbPc = "returned"
    /\ brands # None
    /\ lbResult = Some(LeaderboardResult(brands[1], entries))
    /\ fLeaderboard = File(LeaderboardResult(brands[1], entries))

\* C28: the final metadata status is "stopped-after-<name>" only when the run
\* halted after phase <name>; a run that went through all phases and wrote
\* analysis/leaderboard.json is recorded "completed", for every stop_after.
C28_StoppedStatusOnlyWhenStopped ==
    (lbPc = "returned" /\ fMeta # NoFile) =>
        /\ WentThroughAllPhases => Content(fMeta).status = "completed"
        /\ Content(fMeta).status = "stopped-after-query-generation" =>
              (executionRun = None /\ brands = None)
        /\ Content(fMeta).status = "stopped-after-execution" =>
              (executionRun # None /\ brands = None)

(***************************************************************************)
(* Claims about the ranks across two passes over one brand list, under     *)
(* LbSpec.                                                                 *)
(***************************************************************************)
ScoresOf(es) == {<<es[i].brand, es[i].overall_score>> : i \in DOMAIN es}
RanksOf(es) == {<<es[i].brand, es[i].rank>> : i \in DOMAIN es}

\* Step 6 is taken by a pass that finds the leaderboard of an earlier pass of the
\* same run, made for the same brand list with the same score for every brand.
RankedAgainAlike ==
    /\ RankingStep
    /\ fLeaderboard # NoFile
    /\ Content(fLeaderboard).brands = brands[1]
    /\ ScoresOf(Content(fLeaderboard).entries) = ScoresOf(entries')

C29_Step == RankedAgainAlike => RanksOf(entries') = RanksOf(Content(fLeaderboard).entries)

\* C29: the ranks are a function of the brand list and the brands' scores: two
\* passes with the same brand list and the same per-brand scores give every brand
\* the same rank, whatever the order in which the analyses completed and
\* whichever brands were loaded from their checkpoint files.
C29_RanksDependOnScoresOnly == [][C29_Step]_vars

(***************************************************************************)
(* Claims about JobStore, under JobSpec.                                   *)
(***************************************************************************)
TerminalStatuses == {"completed", "failed"}

\* The step in which the streaming thread of job j records the exit of the subprocess.
ExitObserved(j) == jobPc[j] = "waited" /\ jobPc'[j] = "recorded"

\* A cancelled job stays cancelled, and the observation of the exit writes
\* return_code and completed_at of the record and nothing else of it.
CancelledKept(j) ==
    jobs[j].status = "cancelled" =>
        /\ jobs'[j].status = "cancelled"
        /\ ExitObserved(j) =>
            /\ jobs'[j] = [jobs[j] EXCEPT !.return_code = jobs'[j].return_code,
                                          !.completed_at = jobs'[j].completed_at]
            /\ jobs'[j].return_code = child[j].rc
            /\ jobs'[j].completed_at = Some(clock)

\* After "completed" or "failed" the record never changes, and cancel_job of the job
\* returns False and changes nothing of the store.
TerminalFrozen(j) ==
    jobs[j].status \in TerminalStatuses =>
        /\ jobs'[j] = jobs[j]
        /\ CancelJob(j) =>
            /\ cancelReturn' = Some(<<j, FALSE>>)
            /\ UNCHANGED <<jobs, procs, child, jobPc, clock>>

C30_Step == \A j \in DOMAIN jobs : j \in DOMAIN jobs' /\ CancelledKept(j) /\ TerminalFrozen(j)

\* C30: under every interleaving of cancel_job with the streaming thread, a job
\* that has become "cancelled" keeps that status when the exit of the subprocess
\* is observed later (only return_code and completed_at are recorded), and once a
\* job is "completed" or "failed" cancel_job returns False and changes nothing, so
\* the terminal statuses never change again.
C30_TerminalStatusesStable == [][C30_Step]_vars

\* A job was cancelled while its subprocess ran, the streaming thread then observed
\* the exit, and a later cancel_job of the job returned False.
C30_Witness ==
    \E j \in DOMAIN jobs :
        /\ jobs[j].status = "cancelled"
        /\ jobs[j].return_code # None
        /\ jobPc[j] = "recorded"
        /\ cancelReturn = Some(<<j, FALSE>>)

====
